---- MODULE Spec2Model ----
(***************************************************************************)
(* Freight migration orchestration engine (src/src/orchestrator.py,        *)
(* src/src/config.py, src/src/scan_result.py, src/src/main.py,             *)
(* src/freight/display.py, src/freight-api.py).                            *)
(*                                                                         *)
(* The filesystem (per-candidate scan/clean artifacts, the global config)  *)
(* is state; the answers of the operating system to one call (which, the   *)
(* exit status of a subprocess, stat, the operator's typed answer) are     *)
(* inputs of the action that makes the call.                               *)
(***************************************************************************)
EXTENDS Integers, Sequences, FiniteSets, TLC

\* ------------------------------------------------------------------ bounds
NumDirs == 3
NumSizes == 2
MaxMtime == 1
MaxPasses == 2

\* ------------------------------------------------------- values and names
\* Python's None / an absent key is the empty tuple, a present value v is <<v>>.
None == << >>
Some(v) == <<v>>

\* Directory names in the order sorted() gives them.
NameOrder == <<"a", "b", "c", "d", "e">>
Names == {NameOrder[i] : i \in 1..NumDirs}
SizeValues == {10 * k : k \in 1..NumSizes}

\* Hidden directories of the migration root, in the order sorted() gives
\* them; '.' sorts before every letter.
HiddenOrder == <<".cache", ".freight">>
HiddenNames == {HiddenOrder[i] : i \in 1..Len(HiddenOrder)}
SortOrder == HiddenOrder \o NameOrder
AllNames == Names \cup HiddenNames

\* Entries of the migration root that are regular files.
FileNames == {"notes.txt"}

\* Names of the entries of a candidate, in string order.
ChildOrder == <<".ssh", "x", "y", "z">>
ChildNames == {ChildOrder[i] : i \in 1..Len(ChildOrder)}

MigrationRoot == "/root"
PathOf(parent, name) == [parent |-> parent, name |-> name]

\* ------------------------------------------------ artifacts on the disk
\* kind: what open() + json.load() meet in the file
\*   absent       the file does not exist
\*   malformed    not JSON                      (json.JSONDecodeError)
\*   unreadable   open() fails                  (PermissionError, an IOError)
\*   undecodable  bytes that are not UTF-8      (UnicodeDecodeError)
\*   nonobject    valid JSON that is no object  (a non-empty array)
\*   object       a JSON object
\* mtime_type: the JSON type of the directory_mtime value of an object
\* The artifacts of the model carry no file_count key.
Artifact(k, size, mt, mtime) ==
    [kind |-> k, size_bytes |-> size, file_count |-> None, mtime_type |-> mt,
     directory_mtime |-> mtime]
AbsentArtifact == Artifact("absent", None, "missing", 0)
EmptyDict == Artifact("object", None, "missing", 0)
BrokenKinds == {"malformed", "unreadable", "undecodable"}

\* A clean artifact: kind as above; an object carries bytes_cleaned.
CleanArtifact(k, cleaned) == [kind |-> k, bytes_cleaned |-> cleaned]
AbsentClean == CleanArtifact("absent", None)
EmptyCleanDict == CleanArtifact("object", None)

\* The exception open()/json.load() raise on an artifact, "none" when they return.
LoadException(art) ==
    CASE art.kind = "malformed" -> "JSONDecodeError"
      [] art.kind = "unreadable" -> "PermissionError"
      [] art.kind = "undecodable" -> "UnicodeDecodeError"
      [] OTHER -> "none"

\* Python's exception hierarchy for the classes that occur here.
Bases(exc) ==
    CASE exc = "JSONDecodeError" -> {"JSONDecodeError", "ValueError", "Exception"}
      [] exc = "UnicodeDecodeError" -> {"UnicodeDecodeError", "ValueError", "Exception"}
      [] exc = "PermissionError" -> {"PermissionError", "OSError", "IOError", "Exception"}
      [] exc = "FileNotFoundError" -> {"FileNotFoundError", "OSError", "IOError", "Exception"}
      [] exc = "NotADirectoryError" -> {"NotADirectoryError", "OSError", "IOError", "Exception"}
      [] exc = "AttributeError" -> {"AttributeError", "Exception"}
      [] exc = "TypeError" -> {"TypeError", "Exception"}
      [] exc = "CalledProcessError" -> {"CalledProcessError", "Exception"}
      [] OTHER -> {}
Caught(exc, classes) == Bases(exc) \cap classes # {}

\* ------------------------------------------------------------- variables
VARIABLES
    fs_root,                \* what the path of the migration root names at present
    fs_dirs,                \* the immediate subdirectories of the migration root
    fs_files,               \* the regular files of the migration root
    fs_children,            \* name -> what listing the subdirectory gives
    fs_scan,                \* name -> the candidate's .freight/scan.json
    fs_clean,               \* name -> the candidate's .freight/clean.json
    config,                 \* config.json
    config_created,         \* what the last ensure_global_config returned
    scan_results,           \* FreightOrchestrator.scan_results
    m_phase,                \* where run_migration stands
    m_result,               \* how run_migration ended
    m_confirmed,            \* the confirmed argument of run_migration
    m_deps_ok,              \* what check_dependencies found
    m_prompted,             \* the confirmation prompt was shown
    m_answer,               \* what the operator typed at the prompt
    m_dest_path,            \* dest_path of run_migration
    sorted_dirs,            \* the migration plan
    m_i,                    \* index of the next planned candidate
    successful_migrations,
    failed_migrations,
    m_failed_dirs,
    m_invocations,          \* the freight-migrate.sh invocations made, in order
    m_previous,             \* the invocations the migrate command before this one made
    s_phase,                \* where run_orchestrated_scan stands
    s_result,               \* how run_orchestrated_scan ended
    s_error,                \* the exception that left run_orchestrated_scan, and where
    subdirs,                \* subdirs of run_orchestrated_scan, sorted
    s_i,                    \* index of the next candidate to visit
    successful_scans,
    skipped_scans,
    failed_scans,
    s_failed_dirs,          \* failed_dirs of run_orchestrated_scan: (name, diagnostic)
    s_invocations,          \* the freight-scan.sh invocations made, in order
    s_last,                 \* the last call of _should_skip_scan: input and result
    a_phase,                \* where the call of scan_directories stands
    a_error,                \* the exception that left scan_directories
    a_passes,               \* the calls of scan_directories made on the orchestrator
    stats,                  \* the last result of get_statistics
    o_result,               \* how the last overview ended
    o_error,                \* the exception that left the last overview
    o_writable,             \* config.json could be opened for writing in the last overview
    i_result,               \* how the last init command ended
    sh_result,              \* how the last shared command ended
    sh_error,               \* the exception that left the last shared command
    sh_override,            \* args.threshold of the last shared command
    sh_visited,             \* the subdirs analyze_shared_directories went through
    sh_warned,              \* the subdirs it printed "Could not access" for
    directory_counts,       \* the result of analyze_shared_directories
    ignore_list,            \* ignore_list of display_shared_directories
    threshold,              \* threshold of display_shared_directories
    sorted_shared,          \* sorted_shared of DisplayManager.display_shared_directories
    procs                   \* process -> where its command stands and what it holds

vars == <<fs_root, fs_dirs, fs_files, fs_children, fs_scan, fs_clean, config, config_created,
          stats, o_result, o_error, o_writable, i_result, sh_result, sh_error, sh_override,
          sh_visited, sh_warned, directory_counts, ignore_list, threshold, sorted_shared,
          scan_results, m_phase, m_result,
          m_confirmed, m_deps_ok, m_prompted, m_answer, m_dest_path, sorted_dirs, m_i,
          successful_migrations, failed_migrations, m_failed_dirs, m_invocations,
          m_previous, s_phase, s_result, s_error, subdirs, s_i, successful_scans, skipped_scans,
          failed_scans, s_failed_dirs, s_invocations, s_last, a_phase, a_error, a_passes,
          procs>>

fsVars == <<fs_root, fs_dirs, fs_files, fs_children, fs_scan, fs_clean>>
overviewVars == <<stats, o_result, o_error, o_writable>>
sharedVars == <<sh_result, sh_error, sh_override, sh_visited, sh_warned, directory_counts,
                ignore_list, threshold, sorted_shared>>
cmdVars == <<overviewVars, i_result, sharedVars, procs>>
scanVars == <<s_phase, s_result, s_error, subdirs, s_i, successful_scans, skipped_scans,
              failed_scans, s_failed_dirs, s_invocations, s_last>>
aggVars == <<a_phase, a_error, a_passes>>
migrateVars == <<m_phase, m_result, m_confirmed, m_deps_ok, m_prompted, m_answer,
                 m_dest_path, sorted_dirs, m_i, successful_migrations,
                 failed_migrations, m_failed_dirs, m_invocations, m_previous>>

\* ---------------------------------------------------------------- config
\* json.dump writes an int as its decimal digits, json.load reads the digits
\* of a number back as an int.
JsonDumpInt_LastDigit(n) == <<n % 10>>

RECURSIVE JsonDumpInt(_)
JsonDumpInt(n) == IF n < 10 THEN <<n>> ELSE JsonDumpInt(n \div 10) \o <<n % 10>>

RECURSIVE JsonLoadInt(_)
JsonLoadInt(digits) ==
    IF Len(digits) = 1 THEN digits[1]
    ELSE 10 * JsonLoadInt(SubSeq(digits, 1, Len(digits) - 1)) + digits[Len(digits)]

ConfigAbsent == [state |-> "absent", dest_path |-> None]
ConfigCorrupt == [state |-> "corrupt", dest_path |-> None]

\* config_skeleton of ensure_global_config, as json.dump writes it
ConfigSkeleton(migration_root, dest_path) ==
    [state |-> "ok",
     config_version |-> "FREIGHT_VERSION",
     migration_root |-> migration_root,
     dest_path |-> dest_path,
     created_time |-> "now",
     scan |-> [last_scan_time |-> None,
               total_directories |-> JsonDumpInt(0),
               total_size_bytes |-> JsonDumpInt(0)],
     clean |-> Some([last_clean_time |-> None,
                     target_directories |-> << >>,
                     shared_directory_threshold |-> Some(JsonDumpInt(2)),
                     shared_directory_ignore |-> Some(<< >>)]),
     migrate |-> [last_migrate_time |-> None,
                  rsync_flags |-> "-avxHA --numeric-ids --compress --partial --info=progress2",
                  large_dir_threshold_bytes |-> "3221225472"]]

ConfigWith(dest) == ConfigSkeleton(MigrationRoot, dest)

EnsureGlobalConfig_ReplacesUnreadable(cfg, dest) ==
    IF cfg.state = "ok" THEN cfg ELSE ConfigSkeleton(MigrationRoot, dest)

\* ConfigManager.ensure_global_config(migration_root, dest_path=None): config.json
\* after the call
EnsureGlobalConfig(cfg, dest) ==
    IF cfg.state # "absent" THEN cfg ELSE ConfigSkeleton(MigrationRoot, dest)

\* ConfigManager.ensure_global_config: the value it returns
EnsureGlobalConfigReturns(cfg) == cfg.state = "absent"

GetDestinationPath_DefaultsToCwd(cfg) ==
    IF cfg.state # "ok" \/ cfg.dest_path = None THEN Some(".")
    ELSE cfg.dest_path

\* ConfigManager.get_destination_path
GetDestinationPath(cfg) ==
    IF cfg.state = "absent" THEN None
    ELSE IF cfg.state = "corrupt" THEN None
    ELSE cfg.dest_path

Falsy_EmptyOnly(v) == v = Some("")

\* Python truth value of an optional string
Falsy(v) == v = None \/ v = Some("")

\* ------------------------------------------------------------ ScanResult
\* ScanResult.__init__: scan_data or {}, clean_data or {}
ScanResult(name, has_scan, scan_data, clean_data) ==
    [name |-> name,
     directory |-> PathOf(MigrationRoot, name),
     has_scan |-> has_scan,
     scan_data |-> IF scan_data = None THEN EmptyDict ELSE scan_data[1],
     clean_data |-> IF clean_data = None THEN EmptyCleanDict ELSE clean_data[1]]

\* ScanResult.size_bytes raises AttributeError when scan_data has no .get
SizeBytesRaises(r) == r.has_scan /\ r.scan_data.kind = "nonobject"

\* ScanResult.size_bytes
SizeBytes(r) ==
    IF ~r.has_scan THEN 0
    ELSE IF r.scan_data.size_bytes = None THEN 0
    ELSE r.scan_data.size_bytes[1]

\* ----------------------------------------------------------- aggregation
\* The except clause of the two loads in scan_directories.
AggregatorCatches == {"JSONDecodeError", "IOError"}

\* "Load scan data" of scan_directories: the exception that escapes ("none"
\* when none does), has_scan and scan_data.
LoadScan_FlagBeforeLoad(art) ==
    LET exc == LoadException(art) IN
    IF art.kind = "absent" THEN [raised |-> "none", has_scan |-> FALSE, data |-> None]
    ELSE IF exc = "none" THEN [raised |-> "none", has_scan |-> TRUE, data |-> Some(art)]
    ELSE IF Caught(exc, AggregatorCatches)
         THEN [raised |-> "none", has_scan |-> TRUE, data |-> None]
    ELSE [raised |-> exc, has_scan |-> FALSE, data |-> None]

LoadScan(art) ==
    LET exc == LoadException(art) IN
    IF art.kind = "absent" THEN [raised |-> "none", has_scan |-> FALSE, data |-> None]
    ELSE IF exc = "none" THEN [raised |-> "none", has_scan |-> TRUE, data |-> Some(art)]
    ELSE IF Caught(exc, AggregatorCatches)
         THEN [raised |-> "none", has_scan |-> FALSE, data |-> None]
    ELSE [raised |-> exc, has_scan |-> FALSE, data |-> None]

\* "Load clean data" of scan_directories.
LoadClean(art) ==
    LET exc == LoadException(art) IN
    IF art.kind = "absent" THEN [raised |-> "none", data |-> None]
    ELSE IF exc = "none" THEN [raised |-> "none", data |-> Some(art)]
    ELSE IF Caught(exc, AggregatorCatches) THEN [raised |-> "none", data |-> None]
    ELSE [raised |-> exc, data |-> None]

\* What the path of the migration root can name.
RootKinds == {"directory", "missing", "file"}

RootException_MissingOnly(root) == IF root = "missing" THEN "FileNotFoundError" ELSE "none"

\* if not self.migration_root.exists(): raise FileNotFoundError
\* if not self.migration_root.is_dir(): raise NotADirectoryError
RootException(root) ==
    CASE root = "missing" -> "FileNotFoundError"
      [] root = "file" -> "NotADirectoryError"
      [] OTHER -> "none"

Subdirs_KeepsInfrastructure(dirs, files) == {d \in dirs \cup files : d \in dirs}

\* [d for d in self.migration_root.iterdir() if d.is_dir() and d.name != '.freight']
Subdirs(dirs, files) == {d \in dirs \cup files : d \in dirs /\ d # ".freight"}

RECURSIVE SortedNames_Descending(_, _)
SortedNames_Descending(present, i) ==
    IF i > Len(SortOrder) THEN << >>
    ELSE SortedNames_Descending(present, i + 1)
         \o (IF SortOrder[i] \in present THEN <<SortOrder[i]>> ELSE << >>)

\* sorted(subdirs) and subdirs.sort(): the present names in name order
RECURSIVE SortedNames(_, _)
SortedNames(present, i) ==
    IF i > Len(SortOrder) THEN << >>
    ELSE (IF SortOrder[i] \in present THEN <<SortOrder[i]>> ELSE << >>)
         \o SortedNames(present, i + 1)

\* The loop of scan_directories from position i on; results is
\* self.scan_results, which the loop appends to.
RECURSIVE AggregateFrom(_, _, _, _, _)
AggregateFrom(results, sorted_subdirs, i, scans, cleans) ==
    IF i > Len(sorted_subdirs) THEN [results |-> results, raised |-> "none"]
    ELSE LET name == sorted_subdirs[i]
             s == LoadScan(scans[name])
             c == LoadClean(cleans[name])
         IN  IF s.raised # "none" THEN [results |-> results, raised |-> s.raised]
             ELSE IF c.raised # "none" THEN [results |-> results, raised |-> c.raised]
             ELSE AggregateFrom(Append(results, ScanResult(name, s.has_scan, s.data, c.data)),
                                sorted_subdirs, i + 1, scans, cleans)

\* FreightOrchestrator.scan_directories: self.scan_results after the call and
\* the exception that leaves it; the list is appended to, never reset.
ScanDirectoriesResult(results, root, dirs, scans, cleans) ==
    IF RootException(root) # "none" THEN [results |-> results, raised |-> RootException(root)]
    ELSE AggregateFrom(results, SortedNames(dirs, 1), 1, scans, cleans)

\* -------------------------------------------------------- migration plan
\* sorted(scanned_dirs, key=lambda r: r.size_bytes): stable, ascending
RECURSIVE InsertBySize_BeforeEqual(_, _)
InsertBySize_BeforeEqual(r, s) ==
    IF s = << >> THEN <<r>>
    ELSE IF SizeBytes(Head(s)) < SizeBytes(r)
         THEN <<Head(s)>> \o InsertBySize_BeforeEqual(r, Tail(s))
    ELSE <<r>> \o s

RECURSIVE InsertBySize(_, _)
InsertBySize(r, s) ==
    IF s = << >> THEN <<r>>
    ELSE IF SizeBytes(Head(s)) <= SizeBytes(r) THEN <<Head(s)>> \o InsertBySize(r, Tail(s))
    ELSE <<r>> \o s

RECURSIVE SortBySize(_)
SortBySize(s) ==
    IF s = << >> THEN << >>
    ELSE InsertBySize(s[Len(s)], SortBySize(SubSeq(s, 1, Len(s) - 1)))

HasScan_ByData(r) == r.scan_data # EmptyDict

\* r.has_scan, the condition of the comprehensions over scan_results
HasScan(r) == r.has_scan

\* ------------------------------------------------- the operator's answer
\* confirm = input(...).strip().lower(); characters are one-letter strings
Lower(c) ==
    CASE c = "Y" -> "y" [] c = "E" -> "e" [] c = "S" -> "s" [] c = "N" -> "n"
      [] OTHER -> c

IsSpace(c) == c \in {" ", "\t"}

RECURSIVE LStrip(_)
LStrip(s) == IF s # << >> /\ IsSpace(Head(s)) THEN LStrip(Tail(s)) ELSE s

RECURSIVE RStrip(_)
RStrip(s) ==
    IF s # << >> /\ IsSpace(s[Len(s)]) THEN RStrip(SubSeq(s, 1, Len(s) - 1)) ELSE s

Strip(s) == RStrip(LStrip(s))
LowerAll(s) == [i \in 1..Len(s) |-> Lower(s[i])]

Affirmative_UnlessNo(answer) ==
    LowerAll(Strip(answer)) \notin {<<"n">>, <<"n", "o">>}

\* confirm in ['y', 'yes']
Affirmative(answer) ==
    LowerAll(Strip(answer)) \in {<<"y">>, <<"y", "e", "s">>}

Answers ==
    {<<"y">>, <<"Y", "E", "S">>, <<" ", "y", "e", "s", " ">>,
     << >>, <<"n">>, <<"y", "e">>, <<"y", " ", "e", "s">>, <<"y", "e", "s", "!">>}

\* ------------------------------------------------------------------ Init
ScanArtifactsForMigration ==
    {AbsentArtifact, EmptyDict}
    \cup {Artifact(k, None, "missing", 0) : k \in {"malformed", "undecodable", "nonobject"}}
    \cup {Artifact("object", Some(v), "int", 0) : v \in SizeValues}

Configs ==
    {ConfigAbsent, ConfigCorrupt, ConfigWith(None), ConfigWith(Some("")),
     ConfigWith(Some("/dst"))}

MigrateIdle ==
    /\ m_phase = "Start"
    /\ m_result = "none"
    /\ m_confirmed = FALSE
    /\ m_deps_ok = FALSE
    /\ m_prompted = FALSE
    /\ m_answer = None
    /\ m_dest_path = None
    /\ sorted_dirs = << >>
    /\ m_i = 0
    /\ successful_migrations = 0
    /\ failed_migrations = 0
    /\ m_failed_dirs = << >>
    /\ m_invocations = << >>
    /\ m_previous = None

ScanIdle ==
    /\ s_phase = "Start"
    /\ s_result = "none"
    /\ s_error = None
    /\ subdirs = << >>
    /\ s_i = 0
    /\ successful_scans = 0
    /\ skipped_scans = 0
    /\ failed_scans = 0
    /\ s_failed_dirs = << >>
    /\ s_invocations = << >>
    /\ s_last = None

AggIdle ==
    /\ a_phase = "Start"
    /\ a_error = None
    /\ a_passes = 0

OverviewIdle ==
    /\ stats = None
    /\ o_result = "none"
    /\ o_error = None
    /\ o_writable = FALSE

SharedIdle ==
    /\ sh_result = "none"
    /\ sh_error = None
    /\ sh_override = None
    /\ sh_visited = {}
    /\ sh_warned = << >>
    /\ directory_counts = << >>
    /\ ignore_list = << >>
    /\ threshold = None
    /\ sorted_shared = << >>

\* Two runs of main() at a time, each a process of its own.
NumProcs == 2

CommandsIdle ==
    /\ config_created = FALSE
    /\ i_result = "none"
    /\ procs = [p \in 1..NumProcs |-> [pc |-> "Start", created |-> None, stats |-> None,
                                       config |-> None, since |-> {}]]
    /\ OverviewIdle
    /\ SharedIdle
    /\ MigrateIdle
    /\ ScanIdle
    /\ AggIdle

\* What listing a subdirectory gives: its child directories and files, or a
\* PermissionError.
Listing(dirs, files, accessible) == [dirs |-> dirs, files |-> files, accessible |-> accessible]
EmptyListing == Listing({}, {}, TRUE)

\* f on its domain, default on the other names
OverAllNames(f, default) == [n \in AllNames |-> IF n \in DOMAIN f THEN f[n] ELSE default]

\* A directory that does not exist has no artifacts and no entries.
FsConsistent ==
    \A n \in AllNames \ fs_dirs :
        fs_scan[n] = AbsentArtifact /\ fs_clean[n] = AbsentClean /\ fs_children[n] = EmptyListing

\* A migration root of plain directories that have no entries of their own.
PlainRoot ==
    /\ fs_root = "directory"
    /\ fs_dirs \in SUBSET Names
    /\ fs_files = {}
    /\ fs_children = [n \in AllNames |-> EmptyListing]

InitMigrate ==
    /\ PlainRoot
    /\ \E f \in [Names -> ScanArtifactsForMigration] : fs_scan = OverAllNames(f, AbsentArtifact)
    /\ fs_clean = [n \in AllNames |-> AbsentClean]
    /\ FsConsistent
    /\ config \in Configs
    /\ scan_results = << >>
    /\ CommandsIdle

\* ------------------------------------------------------------- migration
MigrateDone(result) ==
    /\ m_phase' = "Done"
    /\ m_result' = result

\* main(), command migrate: ensure_global_config, then run_migration up to the
\* confirmation prompt, on an orchestrator whose scan_results is results.
RunMigrationOn(results, confirmed, deps_ok) ==
    /\ m_phase = "Start"
    /\ config' = EnsureGlobalConfig(config, None)
    /\ config_created' = EnsureGlobalConfigReturns(config)
    /\ m_confirmed' = confirmed
    /\ m_deps_ok' = deps_ok
    /\ UNCHANGED <<fsVars, cmdVars, scanVars, aggVars, m_answer, m_i, successful_migrations,
                   failed_migrations, m_failed_dirs, m_invocations, m_previous>>
    /\ IF ~deps_ok
       THEN /\ MigrateDone("missing_dependencies")
            /\ UNCHANGED <<scan_results, m_prompted, m_dest_path, sorted_dirs>>
       ELSE LET agg == ScanDirectoriesResult(results, fs_root, Subdirs(fs_dirs, fs_files),
                                             fs_scan, fs_clean)
                scanned_dirs == SelectSeq(agg.results, HasScan)
                dest_path == GetDestinationPath(config')
            IN  /\ scan_results' = agg.results
                /\ IF agg.raised # "none"
                   THEN /\ MigrateDone("error")
                        /\ UNCHANGED <<m_prompted, m_dest_path, sorted_dirs>>
                   ELSE IF scanned_dirs = << >>
                   THEN /\ MigrateDone("no_scan_data")
                        /\ UNCHANGED <<m_prompted, m_dest_path, sorted_dirs>>
                   ELSE IF Falsy(dest_path)
                   THEN /\ MigrateDone("no_destination")
                        /\ m_dest_path' = dest_path
                        /\ UNCHANGED <<m_prompted, sorted_dirs>>
                   ELSE IF \E k \in 1..Len(scanned_dirs) : SizeBytesRaises(scanned_dirs[k])
                   THEN /\ MigrateDone("error")
                        /\ m_dest_path' = dest_path
                        /\ UNCHANGED <<m_prompted, sorted_dirs>>
                   ELSE /\ sorted_dirs' = SortBySize(scanned_dirs)
                        /\ m_dest_path' = dest_path
                        /\ IF ~confirmed
                           THEN /\ MigrateDone("dry_run")
                                /\ UNCHANGED m_prompted
                           ELSE /\ m_phase' = "AwaitingConfirmation"
                                /\ m_prompted' = TRUE
                                /\ UNCHANGED m_result

\* The migrate command: main() makes a new orchestrator (scan_results = []).
RunMigration(confirmed, deps_ok) == RunMigrationOn(<< >>, confirmed, deps_ok)

\* run_migration from the return of input() to the first invocation
Confirm(answer, script_exists) ==
    /\ m_phase = "AwaitingConfirmation"
    /\ m_answer' = Some(answer)
    /\ UNCHANGED <<fsVars, cmdVars, scanVars, aggVars, config, config_created, scan_results,
                   m_confirmed, m_deps_ok, m_prompted,
                   m_dest_path, sorted_dirs, successful_migrations, failed_migrations,
                   m_failed_dirs, m_invocations, m_previous>>
    /\ IF ~Affirmative(answer)
       THEN MigrateDone("cancelled") /\ UNCHANGED m_i
       ELSE IF ~script_exists
       THEN MigrateDone("error") /\ UNCHANGED m_i
       ELSE /\ m_phase' = "Executing"
            /\ m_i' = 1
            /\ UNCHANGED m_result

\* input() raises (end of input, interrupt): the exception leaves run_migration
ConfirmInterrupted ==
    /\ m_phase = "AwaitingConfirmation"
    /\ MigrateDone("error")
    /\ UNCHANGED <<fsVars, cmdVars, scanVars, aggVars, config, config_created, scan_results,
                   m_confirmed, m_deps_ok, m_prompted,
                   m_answer, m_dest_path, sorted_dirs, m_i, successful_migrations,
                   failed_migrations, m_failed_dirs, m_invocations, m_previous>>

\* The except clause around the migrate invocation.
MigrationCatches == {"CalledProcessError"}

RunException_ExitStatusIgnored(outcome) ==
    IF outcome = "start_failure" THEN "PermissionError" ELSE "none"

\* What subprocess.run(..., check=True) raises for an outcome of the call.
RunException(outcome) ==
    CASE outcome = "exit_zero" -> "none"
      [] outcome = "exit_nonzero" -> "CalledProcessError"
      [] outcome = "start_failure" -> "PermissionError"

Outcomes == {"exit_zero", "exit_nonzero", "start_failure"}

DestDir_DestinationItself(dest_path, source_dir) == PathOf(dest_path, ".")

\* dest_dir = Path(dest_path) / source_dir.name
DestDir(dest_path, source_dir) == PathOf(dest_path, source_dir.name)

NextAfterFailure_Break(i, total) == total + 1

\* `continue` in the except clause: the loop goes on with the next candidate
NextAfterFailure(i, total) == i + 1

\* One iteration of the migration loop; after the last one, the summary.
MigrateOne(outcome) ==
    /\ m_phase = "Executing"
    /\ m_i <= Len(sorted_dirs)
    /\ LET scan_result == sorted_dirs[m_i]
           source_dir == scan_result.directory
           dest_dir == DestDir(m_dest_path[1], source_dir)
           exc == RunException(outcome)
       IN  /\ m_invocations' = Append(m_invocations,
                  [source |-> source_dir, dest |-> dest_dir, root |-> MigrationRoot,
                   argv |-> <<"freight-migrate.sh", source_dir, dest_dir, MigrationRoot>>,
                   outcome |-> outcome])
           /\ IF exc = "none"
              THEN /\ successful_migrations' = successful_migrations + 1
                   /\ UNCHANGED <<failed_migrations, m_failed_dirs>>
              ELSE IF Caught(exc, MigrationCatches)
              THEN /\ failed_migrations' = failed_migrations + 1
                   /\ m_failed_dirs' = Append(m_failed_dirs, source_dir.name)
                   /\ UNCHANGED successful_migrations
              ELSE UNCHANGED <<successful_migrations, failed_migrations, m_failed_dirs>>
           /\ IF exc # "none" /\ ~Caught(exc, MigrationCatches)
              THEN MigrateDone("error") /\ UNCHANGED m_i
              ELSE LET next == IF exc = "none" THEN m_i + 1
                                       ELSE NextAfterFailure(m_i, Len(sorted_dirs))
                   IN  /\ m_i' = next
                       /\ IF next > Len(sorted_dirs)
                          THEN MigrateDone("summary")
                          ELSE UNCHANGED <<m_phase, m_result>>
    /\ UNCHANGED <<fsVars, cmdVars, scanVars, aggVars, config, config_created, scan_results,
                   m_confirmed, m_deps_ok, m_prompted,
                   m_answer, m_dest_path, sorted_dirs, m_previous>>

NextMigrate ==
    \/ \E confirmed \in BOOLEAN, deps_ok \in BOOLEAN : RunMigration(confirmed, deps_ok)
    \/ \E answer \in Answers, script_exists \in BOOLEAN : Confirm(answer, script_exists)
    \/ ConfirmInterrupted
    \/ \E outcome \in Outcomes : MigrateOne(outcome)

SpecMigrate == InitMigrate /\ [][NextMigrate]_vars

\* ------------------------------------------------- the migration, re-run
\* The process of a finished migrate command has exited and the operator
\* gives the command again: a new process and a new orchestrator, which have
\* nothing of the earlier run but the disk.  The transfer (rsync_flags of
\* config.json: -avxHA ..., a copy) leaves the source tree and its scan.json
\* where they were.
MigrateAgain ==
    /\ m_phase = "Done"
    /\ m_previous = None
    /\ m_previous' = Some(m_invocations)
    /\ m_phase' = "Start"
    /\ m_result' = "none"
    /\ m_confirmed' = FALSE
    /\ m_deps_ok' = FALSE
    /\ m_prompted' = FALSE
    /\ m_answer' = None
    /\ m_dest_path' = None
    /\ sorted_dirs' = << >>
    /\ m_i' = 0
    /\ successful_migrations' = 0
    /\ failed_migrations' = 0
    /\ m_failed_dirs' = << >>
    /\ m_invocations' = << >>
    /\ scan_results' = << >>
    /\ UNCHANGED <<fsVars, cmdVars, scanVars, aggVars, config, config_created>>

InitRerun ==
    /\ PlainRoot
    /\ \E f \in [Names -> {AbsentArtifact, Artifact("object", Some(10), "int", 0)}] :
           fs_scan = OverAllNames(f, AbsentArtifact)
    /\ fs_clean = [n \in AllNames |-> AbsentClean]
    /\ FsConsistent
    /\ config = ConfigWith(Some("/dst"))
    /\ scan_results = << >>
    /\ CommandsIdle

NextRerun ==
    \/ RunMigration(TRUE, TRUE)
    \/ Confirm(<<"y">>, TRUE)
    \/ \E outcome \in Outcomes : MigrateOne(outcome)
    \/ MigrateAgain

SpecRerun == InitRerun /\ [][NextRerun]_vars

\* --------------------------------------------------------------- scan run
\* st_mtime of a directory: whole seconds and the part below one second
StMtimes == [seconds : 0..MaxMtime, nanos : {0, 500000000}]

\* int(dir_stat.st_mtime)
IntOfStMtime(st) == st.seconds

\* The except clause of _should_skip_scan.
SkipCatches == {"JSONDecodeError", "IOError", "ValueError", "KeyError"}

MtimeUnchanged_Strict(dir_mtime, scan_dir_mtime) == dir_mtime < scan_dir_mtime

\* if dir_mtime <= scan_dir_mtime
MtimeUnchanged(dir_mtime, scan_dir_mtime) == dir_mtime <= scan_dir_mtime

Decision(skip, reason, raised, compared) ==
    [skip |-> skip, reason |-> reason, raised |-> raised, compared |-> compared]

\* FreightOrchestrator._should_skip_scan, in the order of its statements:
\* the exception that leaves it ("none" when it returns), else (skip, reason).
ShouldSkipScan(art, st) ==
    LET Handler(exc) == IF Caught(exc, SkipCatches)
                        THEN Decision(FALSE, "scan data invalid", "none", FALSE)
                        ELSE Decision(FALSE, "", exc, FALSE)
    IN  IF art.kind = "absent" THEN Decision(FALSE, "", "none", FALSE)
        ELSE IF LoadException(art) # "none" THEN Handler(LoadException(art))
        ELSE IF art.kind = "nonobject" THEN Handler("AttributeError")
        ELSE IF art.mtime_type = "missing"
             THEN Decision(FALSE, "no mtime in scan data", "none", FALSE)
        ELSE IF art.mtime_type = "string" THEN Handler("ValueError")
        ELSE IF art.mtime_type = "array" THEN Handler("TypeError")
        ELSE IF MtimeUnchanged(IntOfStMtime(st), art.directory_mtime)
             THEN Decision(TRUE, "no changes", "none", TRUE)
        ELSE Decision(FALSE, "directory modified", "none", TRUE)

\* The two except clauses around the scan invocation, in their order.
ScanCatchesFirst == {"CalledProcessError"}
ScanCatchesSecond_Missing == {}
ScanCatchesSecond == {"Exception"}

\* What one invocation of freight-scan.sh does: how it ends and what it
\* leaves on its error stream.
ScanCalls ==
    {[outcome |-> "exit_zero", stderr |-> ""],
     [outcome |-> "exit_nonzero", stderr |-> ""],
     [outcome |-> "exit_nonzero", stderr |-> " scan failed "],
     [outcome |-> "start_failure", stderr |-> ""]}

\* e.stderr.strip() if e.stderr else "Unknown error"
StderrDiagnostic(stderr) ==
    IF stderr = "" THEN "Unknown error"
    ELSE IF stderr = " scan failed " THEN "scan failed"
    ELSE stderr

\* str(e) of the exception of a failed process start
StartFailureText == "[Errno 13] Permission denied"

ScanDone(result, error) ==
    /\ s_phase' = "Done"
    /\ s_result' = result
    /\ s_error' = error

ScanArtifactsForScan ==
    {AbsentArtifact, EmptyDict}
    \cup {Artifact(k, None, "missing", 0) : k \in {"malformed", "undecodable", "nonobject"}}
    \cup {Artifact("object", None, "int", t) : t \in 0..MaxMtime}

InitScan ==
    /\ PlainRoot
    /\ \E f \in [Names -> ScanArtifactsForScan] : fs_scan = OverAllNames(f, AbsentArtifact)
    /\ fs_clean = [n \in AllNames |-> AbsentClean]
    /\ FsConsistent
    /\ config = ConfigAbsent
    /\ scan_results = << >>
    /\ CommandsIdle

\* main(), command scan: ensure_global_config, then run_orchestrated_scan up
\* to its loop.
RunOrchestratedScan(deps_ok, script_exists) ==
    /\ s_phase = "Start"
    /\ config' = EnsureGlobalConfig(config, None)
    /\ config_created' = EnsureGlobalConfigReturns(config)
    /\ UNCHANGED <<fsVars, cmdVars, migrateVars, aggVars, scan_results, successful_scans,
                   skipped_scans,
                   failed_scans, s_failed_dirs, s_invocations, s_last>>
    /\ IF ~deps_ok
       THEN ScanDone("missing_dependencies", None) /\ UNCHANGED <<subdirs, s_i>>
       ELSE IF RootException(fs_root) # "none"
       THEN /\ ScanDone("error", Some([exc |-> RootException(fs_root), at |-> "root"]))
            /\ UNCHANGED <<subdirs, s_i>>
       ELSE IF Subdirs(fs_dirs, fs_files) = {}
       THEN ScanDone("no_subdirectories", None) /\ UNCHANGED <<subdirs, s_i>>
       ELSE /\ subdirs' = SortedNames(Subdirs(fs_dirs, fs_files), 1)
            /\ IF ~script_exists
               THEN /\ ScanDone("error", Some([exc |-> "FileNotFoundError", at |-> "script"]))
                    /\ UNCHANGED s_i
               ELSE /\ s_phase' = "Scanning"
                    /\ s_i' = 1
                    /\ UNCHANGED <<s_result, s_error>>

\* One iteration of the loop of run_orchestrated_scan; after the last one,
\* the summary.  st is what stat answers, call what the invocation of
\* freight-scan.sh does.  The tool rewrites the scan.json of its candidate,
\* which this run does not read again.
ScanOne(st, call) ==
    /\ s_phase = "Scanning"
    /\ s_i <= Len(subdirs)
    /\ LET dir_name == subdirs[s_i]
           d == ShouldSkipScan(fs_scan[dir_name], st)
           outcome == call.outcome
           stderr == call.stderr
           exc == RunException(outcome)
           finished == s_i + 1 > Len(subdirs)
           Advance == /\ s_i' = s_i + 1
                      /\ IF finished THEN ScanDone("summary", None)
                         ELSE UNCHANGED <<s_phase, s_result, s_error>>
       IN  /\ s_last' = Some([name |-> dir_name,
                              dir_mtime |-> IF d.compared THEN Some(st) ELSE None,
                              skip |-> d.skip, reason |-> d.reason, raised |-> d.raised])
           /\ IF d.raised # "none"
              THEN /\ ScanDone("error", Some([exc |-> d.raised, at |-> "skip decision"]))
                   /\ UNCHANGED <<s_i, successful_scans, skipped_scans, failed_scans,
                                  s_failed_dirs, s_invocations>>
              ELSE IF d.skip
              THEN /\ skipped_scans' = skipped_scans + 1
                   /\ Advance
                   /\ UNCHANGED <<successful_scans, failed_scans, s_failed_dirs,
                                  s_invocations>>
              ELSE /\ s_invocations' = Append(s_invocations,
                          [path |-> PathOf(MigrationRoot, dir_name), outcome |-> outcome,
                           stderr |-> stderr])
                   /\ UNCHANGED skipped_scans
                   /\ IF exc = "none"
                      THEN /\ successful_scans' = successful_scans + 1
                           /\ Advance
                           /\ UNCHANGED <<failed_scans, s_failed_dirs>>
                      ELSE IF Caught(exc, ScanCatchesFirst)
                      THEN /\ failed_scans' = failed_scans + 1
                           /\ s_failed_dirs' =
                                  Append(s_failed_dirs, <<dir_name, StderrDiagnostic(stderr)>>)
                           /\ Advance
                           /\ UNCHANGED successful_scans
                      ELSE IF Caught(exc, ScanCatchesSecond)
                      THEN /\ failed_scans' = failed_scans + 1
                           /\ s_failed_dirs' =
                                  Append(s_failed_dirs, <<dir_name, StartFailureText>>)
                           /\ Advance
                           /\ UNCHANGED successful_scans
                      ELSE /\ ScanDone("error", Some([exc |-> exc, at |-> "invocation"]))
                           /\ UNCHANGED <<s_i, successful_scans, failed_scans, s_failed_dirs>>
    /\ UNCHANGED <<fsVars, cmdVars, migrateVars, aggVars, config, config_created, scan_results,
                 subdirs>>

NextScan ==
    \/ \E deps_ok \in BOOLEAN, script_exists \in BOOLEAN :
           RunOrchestratedScan(deps_ok, script_exists)
    \/ \E st \in StMtimes, call \in ScanCalls : ScanOne(st, call)

SpecScan == InitScan /\ [][NextScan]_vars

\* ------------------------------------------------ aggregation on its own
ScanArtifactsForAggregation ==
    {AbsentArtifact}
    \cup {Artifact(k, None, "missing", 0) :
              k \in {"malformed", "unreadable", "undecodable", "nonobject"}}
    \cup {Artifact("object", Some(10), "int", 0)}

CleanArtifactsForAggregation ==
    {AbsentClean, CleanArtifact("malformed", None), CleanArtifact("undecodable", None),
     CleanArtifact("object", Some(5))}

InitAggregation ==
    /\ PlainRoot
    /\ \E f \in [Names -> ScanArtifactsForAggregation] : fs_scan = OverAllNames(f, AbsentArtifact)
    /\ \E f \in [Names -> CleanArtifactsForAggregation] : fs_clean = OverAllNames(f, AbsentClean)
    /\ FsConsistent
    /\ config = ConfigWith(Some("/dst"))
    /\ scan_results = << >>
    /\ CommandsIdle

\* One call of FreightOrchestrator.scan_directories on the orchestrator.
ScanDirectories ==
    /\ a_passes < MaxPasses
    /\ a_passes' = a_passes + 1
    /\ LET agg == ScanDirectoriesResult(scan_results, fs_root, Subdirs(fs_dirs, fs_files),
                                        fs_scan, fs_clean)
       IN  /\ scan_results' = agg.results
           /\ a_phase' = IF agg.raised = "none" THEN "Done" ELSE "Raised"
           /\ a_error' = IF agg.raised = "none" THEN None ELSE Some(agg.raised)
    /\ UNCHANGED <<fsVars, cmdVars, migrateVars, scanVars, config, config_created>>

\* The first call on a new orchestrator.
NextAggregation == a_phase = "Start" /\ ScanDirectories

SpecAggregation == InitAggregation /\ [][NextAggregation]_vars

\* ------------------------------------------------------------- statistics
\* ScanResult.file_count
FileCount(r) ==
    IF ~r.has_scan THEN 0
    ELSE IF r.scan_data.file_count = None THEN 0
    ELSE r.scan_data.file_count[1]

\* ScanResult.has_clean_data: bool(self.clean_data)
HasCleanData(r) == r.clean_data # EmptyCleanDict

\* ScanResult.bytes_cleaned raises AttributeError when clean_data has no .get
BytesCleanedRaises(r) == HasCleanData(r) /\ r.clean_data.kind = "nonobject"

\* ScanResult.bytes_cleaned
BytesCleaned(r) ==
    IF ~HasCleanData(r) THEN 0
    ELSE IF r.clean_data.bytes_cleaned = None THEN 0
    ELSE r.clean_data.bytes_cleaned[1]

\* sum(...) of a sequence of ints
RECURSIVE Sum(_)
Sum(values) == IF values = << >> THEN 0 ELSE Head(values) + Sum(Tail(values))

\* a / b of two ints, kept as the exact fraction the float is nearest to
TrueDiv(a, b) == [num |-> a, den |-> b]
Times(q, k) == [num |-> q.num * k, den |-> q.den]

CompletionRate_Fraction(scanned_dirs, total_dirs) ==
    IF total_dirs > 0 THEN TrueDiv(scanned_dirs, total_dirs) ELSE TrueDiv(0, 1)

\* (scanned_dirs / total_dirs * 100) if total_dirs > 0 else 0
CompletionRate(scanned_dirs, total_dirs) ==
    IF total_dirs > 0 THEN Times(TrueDiv(scanned_dirs, total_dirs), 100) ELSE TrueDiv(0, 1)

\* FreightOrchestrator.get_statistics: the exception that leaves it ("none"
\* when it returns) and the dict it returns.
GetStatistics(results) ==
    LET scanned == SelectSeq(results, HasScan)
        cleaned == SelectSeq(results, HasCleanData)
        total_dirs == Len(results)
        scanned_dirs == Sum([k \in 1..Len(scanned) |-> 1])
        raises == \E k \in 1..Len(results) :
                      SizeBytesRaises(results[k]) \/ BytesCleanedRaises(results[k])
    IN  IF raises THEN [raised |-> "AttributeError", value |-> None]
        ELSE [raised |-> "none",
              value |-> Some(
                  [total_directories |-> total_dirs,
                   scanned_directories |-> scanned_dirs,
                   unscanned_directories |-> total_dirs - scanned_dirs,
                   completion_rate |-> CompletionRate(scanned_dirs, total_dirs),
                   total_size_bytes |->
                       Sum([k \in 1..Len(scanned) |-> SizeBytes(scanned[k])]),
                   total_files |->
                       Sum([k \in 1..Len(scanned) |-> FileCount(scanned[k])]),
                   total_cleanable_bytes |->
                       Sum([k \in 1..Len(cleaned) |-> BytesCleaned(cleaned[k])])])]

\* The except clause of update_config_stats.
UpdateCatches == {"JSONDecodeError", "IOError"}

\* What opening config.json and json.load raise, "none" when they return.
ConfigLoadException(cfg) ==
    CASE cfg.state = "absent" -> "FileNotFoundError"
      [] cfg.state = "corrupt" -> "JSONDecodeError"
      [] OTHER -> "none"

\* What open(config.json, 'w') raises.
ConfigWriteException(writable) == IF writable THEN "none" ELSE "PermissionError"

UpdateConfigStats_DirectoriesOnly(cfg, st, writable) ==
    IF cfg.state # "ok" \/ ~writable THEN [raised |-> "none", config |-> cfg]
    ELSE [raised |-> "none",
          config |-> [cfg EXCEPT !.scan.total_directories = JsonDumpInt(st.total_directories)]]

\* ConfigManager.update_config_stats: the exception that leaves it and
\* config.json after the call.
UpdateConfigStats(cfg, st, writable) ==
    LET Handler(exc) == [raised |-> IF Caught(exc, UpdateCatches) THEN "none" ELSE exc,
                         config |-> cfg]
    IN  IF cfg.state = "absent" THEN [raised |-> "none", config |-> cfg]
        ELSE IF ConfigLoadException(cfg) # "none" THEN Handler(ConfigLoadException(cfg))
        ELSE IF ConfigWriteException(writable) # "none"
             THEN Handler(ConfigWriteException(writable))
        ELSE [raised |-> "none",
              config |-> [cfg EXCEPT
                  !.scan.total_directories = JsonDumpInt(st.total_directories),
                  !.scan.total_size_bytes = JsonDumpInt(st.total_size_bytes)]]

\* The two callers of get_statistics: display_overview of the overview
\* command and get_overview_data of the API.
OverviewCallers == {"display_overview", "get_overview_data"}

\* main(), command overview, and get_overview of the API: a new orchestrator,
\* ensure_global_config, scan_directories, then display_overview or
\* get_overview_data.  writable: config.json can be opened for writing.
Overview(caller, writable) ==
    LET created == EnsureGlobalConfigReturns(config)
        ensured == EnsureGlobalConfig(config, None)
        agg == ScanDirectoriesResult(<< >>, fs_root, Subdirs(fs_dirs, fs_files), fs_scan,
                                     fs_clean)
        st == GetStatistics(agg.results)
        upd == UpdateConfigStats(ensured, st.value[1], writable)
        Failed(exc) == /\ o_result' = "error"
                       /\ o_error' = Some(exc)
                       /\ stats' = None
    IN  /\ o_writable' = writable
        /\ UNCHANGED <<fsVars, i_result, sharedVars, procs, migrateVars, scanVars, aggVars>>
        /\ IF created /\ ~writable
           THEN /\ Failed("PermissionError")
                /\ UNCHANGED <<config, config_created, scan_results>>
           ELSE /\ config_created' = created
                /\ scan_results' = agg.results
                /\ IF agg.raised # "none"
                   THEN Failed(agg.raised) /\ config' = ensured
                   ELSE IF st.raised # "none"
                   THEN Failed(st.raised) /\ config' = ensured
                   ELSE /\ stats' = st.value
                        /\ config' = upd.config
                        /\ o_result' = caller
                        /\ o_error' = None

ScanArtifactsForOverview ==
    {AbsentArtifact, EmptyDict}
    \cup {Artifact(k, None, "missing", 0) : k \in {"malformed", "nonobject"}}
    \cup {Artifact("object", Some(v), "int", 0) : v \in SizeValues}

CleanArtifactsForOverview == {AbsentClean, CleanArtifact("object", Some(5))}

\* A config.json that earlier overviews have written statistics to.
ConfigWithStats ==
    [ConfigWith(Some("/dst")) EXCEPT !.scan.total_directories = JsonDumpInt(7),
                                     !.scan.total_size_bytes = JsonDumpInt(70)]

ConfigsForOverview == {ConfigAbsent, ConfigCorrupt, ConfigWith(Some("/dst")), ConfigWithStats}

InitOverview ==
    /\ PlainRoot
    /\ \E f \in [Names -> ScanArtifactsForOverview] : fs_scan = OverAllNames(f, AbsentArtifact)
    /\ \E f \in [Names -> CleanArtifactsForOverview] : fs_clean = OverAllNames(f, AbsentClean)
    /\ FsConsistent
    /\ config \in ConfigsForOverview
    /\ scan_results = << >>
    /\ CommandsIdle

NextOverview ==
    \E caller \in OverviewCallers, writable \in BOOLEAN : Overview(caller, writable)

SpecOverview == InitOverview /\ [][NextOverview]_vars

\* ------------------------------------------------- shared directories
\* ConfigManager.get_shared_directory_threshold
GetSharedDirectoryThreshold(cfg) ==
    IF cfg.state = "absent" THEN None
    ELSE IF cfg.state = "corrupt" THEN None
    ELSE IF cfg.clean = None THEN None
    ELSE IF cfg.clean[1].shared_directory_threshold = None THEN None
    ELSE Some(JsonLoadInt(cfg.clean[1].shared_directory_threshold[1]))

\* implicit_ignores of get_shared_directory_ignore_list
ImplicitIgnores == <<".freight", ".ssh">>

\* ConfigManager._get_additional_shared_ignores
GetAdditionalSharedIgnores(cfg) ==
    IF cfg.state = "absent" THEN None
    ELSE IF cfg.state = "corrupt" THEN None
    ELSE IF cfg.clean = None THEN Some(<< >>)
    ELSE IF cfg.clean[1].shared_directory_ignore = None THEN Some(<< >>)
    ELSE cfg.clean[1].shared_directory_ignore

\* set(a_list)
SetOf(list) == {list[i] : i \in 1..Len(list)}

\* list(a_set): the elements, each once, in an order the set decides
RECURSIVE ListOf(_)
ListOf(set) ==
    IF set = {} THEN << >>
    ELSE LET first == CHOOSE e \in set : TRUE IN <<first>> \o ListOf(set \ {first})

GetSharedDirectoryIgnoreList_ConfiguredOnly(cfg) ==
    LET additional_ignores == GetAdditionalSharedIgnores(cfg) IN
    IF additional_ignores = None \/ additional_ignores = Some(<< >>) THEN ImplicitIgnores
    ELSE ListOf(SetOf(additional_ignores[1]))

\* ConfigManager.get_shared_directory_ignore_list
GetSharedDirectoryIgnoreList(cfg) ==
    LET additional_ignores == GetAdditionalSharedIgnores(cfg) IN
    IF additional_ignores = None THEN ImplicitIgnores
    ELSE ListOf(SetOf(ImplicitIgnores \o additional_ignores[1]))

ChildDirs_WithFiles(listing) == listing.dirs \cup listing.files

\* [d.name for d in subdir.iterdir() if d.is_dir()]
ChildDirs(listing) == {d \in listing.dirs \cup listing.files : d \in listing.dirs}

\* The except clause of the loop of analyze_shared_directories.
AnalyzerCatches == {"PermissionError", "OSError"}

ListingException_NeverRaises(listing) == "none"

\* What subdir.iterdir() raises, "none" when the listing succeeds.
ListingException(listing) == IF listing.accessible THEN "none" ELSE "PermissionError"

\* directory_counts[dir_name] = directory_counts.get(dir_name, 0) + 1
Increment(counts, dir_name) ==
    [n \in DOMAIN counts \cup {dir_name} |->
        IF n = dir_name
        THEN (IF dir_name \in DOMAIN counts THEN counts[dir_name] ELSE 0) + 1
        ELSE counts[n]]

\* The inner loop of analyze_shared_directories over child_dirs from position i on.
RECURSIVE CountChildren(_, _, _, _)
CountChildren(counts, child_dirs, i, ignores) ==
    IF i > Len(child_dirs) THEN counts
    ELSE CountChildren(IF child_dirs[i] \notin SetOf(ignores)
                       THEN Increment(counts, child_dirs[i]) ELSE counts,
                       child_dirs, i + 1, ignores)

\* The loop of analyze_shared_directories over subdirs from position i on:
\* the exception that leaves it ("none" when it ends), directory_counts and
\* the subdirs a warning was printed for.  child_dirs is built whole before
\* the first name is counted.
RECURSIVE AnalyzeFrom(_, _, _, _, _, _)
AnalyzeFrom(counts, warned, listed_subdirs, i, children, ignores) ==
    IF i > Len(listed_subdirs) THEN [raised |-> "none", counts |-> counts, warned |-> warned]
    ELSE LET subdir == listed_subdirs[i]
             listing == children[subdir]
             exc == ListingException(listing)
         IN  IF exc # "none" /\ ~Caught(exc, AnalyzerCatches)
             THEN [raised |-> exc, counts |-> counts, warned |-> warned]
             ELSE IF exc # "none"
             THEN AnalyzeFrom(counts, Append(warned, subdir), listed_subdirs, i + 1, children,
                              ignores)
             ELSE AnalyzeFrom(CountChildren(counts, ListOf(ChildDirs(listing)), 1, ignores),
                              warned, listed_subdirs, i + 1, children, ignores)

\* FreightOrchestrator.analyze_shared_directories; it tests that the root
\* exists, and iterdir() raises NotADirectoryError on a root that is a file.
AnalyzeSharedDirectories(root, dirs, files, children, cfg) ==
    IF RootException(root) # "none"
    THEN [raised |-> RootException(root), counts |-> << >>, warned |-> << >>]
    ELSE
    AnalyzeFrom(<< >>, << >>, ListOf(Subdirs(dirs, files)), 1, children,
                GetSharedDirectoryIgnoreList(cfg))

\* Position of a name in string order.
ChildIndex(name) == CHOOSE i \in 1..Len(ChildOrder) : ChildOrder[i] = name

\* count >= threshold
MeetsThreshold(count, min_count) == count >= min_count

SortKeyBefore_Ascending(a, b) ==
    a[2] < b[2] \/ (a[2] = b[2] /\ ChildIndex(a[1]) < ChildIndex(b[1]))

\* key=lambda x: (-x[1], x[0]): the key of a is less than the key of b
SortKeyBefore(a, b) ==
    (0 - a[2]) < (0 - b[2]) \/ (a[2] = b[2] /\ ChildIndex(a[1]) < ChildIndex(b[1]))

\* sorted(shared_dirs.items(), key=...)
RECURSIVE InsertByKey(_, _)
InsertByKey(item, s) ==
    IF s = << >> THEN <<item>>
    ELSE IF SortKeyBefore(item, Head(s)) THEN <<item>> \o s
    ELSE <<Head(s)>> \o InsertByKey(item, Tail(s))

RECURSIVE SortByKey(_)
SortByKey(items) ==
    IF items = << >> THEN << >>
    ELSE InsertByKey(items[Len(items)], SortByKey(SubSeq(items, 1, Len(items) - 1)))

\* a_dict.items()
Items(dict) ==
    LET keys == ListOf(DOMAIN dict) IN [i \in 1..Len(keys) |-> <<keys[i], dict[keys[i]]>>]

\* DisplayManager.display_shared_directories: the exception that leaves it,
\* which of its outputs it printed, and sorted_shared.
DisplayShared(counts, min_count) ==
    LET Result(raised, printed, sorted) ==
            [raised |-> raised, printed |-> printed, sorted_shared |-> sorted]
        Meets(item) == MeetsThreshold(item[2], min_count[1])
        shared_dirs == SelectSeq(Items(counts), Meets)
    IN  IF DOMAIN counts = {} THEN Result("none", "no_directories", << >>)
        ELSE IF min_count = None THEN Result("TypeError", "none", << >>)
        ELSE IF shared_dirs = << >> THEN Result("none", "no_shared_directories", << >>)
        ELSE Result("none", "report", SortByKey(shared_dirs))

\* --threshold of the shared command: absent, or an int
ThresholdOverrides == {None, Some(1), Some(3)}

\* main(), command shared: ensure_global_config, the replacement of
\* orchestrator.get_shared_directory_threshold when --threshold is given,
\* then display_shared_directories, which asks config_manager for the
\* threshold and never calls the replaced method.
SharedCommand(override) ==
    LET ensured == EnsureGlobalConfig(config, None)
        analysis == AnalyzeSharedDirectories(fs_root, fs_dirs, fs_files, fs_children, ensured)
        min_count == GetSharedDirectoryThreshold(ensured)
        shown == DisplayShared(analysis.counts, min_count)
    IN  /\ config' = ensured
        /\ config_created' = EnsureGlobalConfigReturns(config)
        /\ sh_override' = override
        /\ sh_visited' = IF RootException(fs_root) # "none" THEN {}
                          ELSE Subdirs(fs_dirs, fs_files)
        /\ sh_warned' = analysis.warned
        /\ directory_counts' = analysis.counts
        /\ threshold' = min_count
        /\ ignore_list' = GetSharedDirectoryIgnoreList(ensured)
        /\ sorted_shared' = shown.sorted_shared
        /\ IF analysis.raised # "none"
           THEN sh_result' = "error" /\ sh_error' = Some(analysis.raised)
           ELSE IF shown.raised # "none"
           THEN sh_result' = "error" /\ sh_error' = Some(shown.raised)
           ELSE sh_result' = shown.printed /\ sh_error' = None
        /\ UNCHANGED <<fsVars, overviewVars, i_result, procs, scan_results,
                       migrateVars, scanVars, aggVars>>

\* config.json as the operator edited it: the clean sub-record
ConfigEdited(min_count, ignores) ==
    [ConfigWith(Some("/dst")) EXCEPT
         !.clean = Some([@[1] EXCEPT !.shared_directory_threshold = min_count,
                                     !.shared_directory_ignore = ignores])]

ConfigWithoutClean == [ConfigWith(Some("/dst")) EXCEPT !.clean = None]

ConfigsForShared ==
    {ConfigAbsent, ConfigCorrupt, ConfigWithoutClean,
     ConfigEdited(Some(JsonDumpInt(1)), Some(<<"y">>)),
     ConfigEdited(Some(JsonDumpInt(3)), Some(<<".ssh", "z", ".ssh">>)),
     ConfigEdited(None, None)}

ListingsForShared ==
    {Listing(d, {}, TRUE) : d \in SUBSET {"x", "y", "z"}}
    \cup {Listing({".ssh", "x"}, {}, TRUE), Listing({"y"}, {"x"}, TRUE),
          Listing({"x"}, {}, FALSE)}

InitShared ==
    /\ fs_root = "directory"
    /\ fs_dirs \in SUBSET Names
    /\ fs_files = {}
    /\ \E f \in [Names -> ListingsForShared] : fs_children = OverAllNames(f, EmptyListing)
    /\ fs_scan = [n \in AllNames |-> AbsentArtifact]
    /\ fs_clean = [n \in AllNames |-> AbsentClean]
    /\ FsConsistent
    /\ config \in ConfigsForShared
    /\ scan_results = << >>
    /\ CommandsIdle

NextShared == \E override \in ThresholdOverrides : SharedCommand(override)

SpecShared == InitShared /\ [][NextShared]_vars

\* ------------------------------------- repeated passes on one orchestrator
\* Between two calls the path of the migration root stops naming the
\* directory: the mount goes away, or a file takes the place of the path.
\* fs_dirs and the artifacts go on describing the tree that was there.
RootPathChanges(kind) ==
    /\ fs_root = "directory"
    /\ kind # "directory"
    /\ fs_root' = kind
    /\ UNCHANGED <<fs_dirs, fs_files, fs_children, fs_scan, fs_clean, config, config_created,
                   cmdVars, scan_results, migrateVars, scanVars, aggVars>>

InitPasses ==
    /\ PlainRoot
    /\ \E f \in [Names -> {AbsentArtifact, Artifact("object", Some(10), "int", 0)}] :
           fs_scan = OverAllNames(f, AbsentArtifact)
    /\ fs_clean = [n \in AllNames |-> AbsentClean]
    /\ FsConsistent
    /\ config = ConfigWith(Some("/dst"))
    /\ scan_results = << >>
    /\ CommandsIdle

\* scan_directories and run_migration called on one orchestrator, in any order.
NextPasses ==
    \/ ScanDirectories
    \/ RunMigrationOn(scan_results, FALSE, TRUE)
    \/ \E kind \in RootKinds : RootPathChanges(kind)

SpecPasses == InitPasses /\ [][NextPasses]_vars

\* ------------------------------------------------------- the init command
\* str of a sequence of characters
RECURSIVE Join(_)
Join(chars) == IF chars = << >> THEN "" ELSE Head(chars) \o Join(Tail(chars))

\* What the operator types at "Enter destination directory:".
DestinationInputs == {<< >>, <<" ">>, <<" ", "/", "d", " ">>}

\* What the source directory of init is on the disk.
SourceKinds == {"directory", "missing", "file"}

\* main(), command init: ConfigManager.init_freight_root.  With no config.json
\* at its first line, the ensure_global_config at its end creates one, so the
\* branch that updates an existing config is not taken by one process alone.
InitFreightRoot(source, dest_input) ==
    LET stripped == Strip(dest_input) IN
    /\ UNCHANGED <<fsVars, overviewVars, sharedVars, procs, scan_results,
                   migrateVars, scanVars, aggVars>>
    /\ IF config.state # "absent"
       THEN i_result' = "already_initialized" /\ UNCHANGED <<config, config_created>>
       ELSE IF source = "missing"
       THEN i_result' = "source_missing" /\ UNCHANGED <<config, config_created>>
       ELSE IF source = "file"
       THEN i_result' = "source_not_a_directory" /\ UNCHANGED <<config, config_created>>
       ELSE IF stripped = << >>
       THEN i_result' = "destination_required" /\ UNCHANGED <<config, config_created>>
       ELSE /\ config' = EnsureGlobalConfig(config, Some(Join(stripped)))
            /\ config_created' = EnsureGlobalConfigReturns(config)
            /\ i_result' = "initialized"

\* ------------------------------------------- the commands, one after another
ScanArtifactsForCommands == {AbsentArtifact, Artifact("object", Some(10), "int", 0)}

ConfigsForCommands == {ConfigAbsent, ConfigCorrupt, ConfigWith(Some("/dst"))}

InitCommands ==
    /\ fs_root = "directory"
    /\ fs_dirs \in SUBSET AllNames
    /\ fs_files \in SUBSET FileNames
    /\ fs_children = [n \in AllNames |-> IF n \in fs_dirs THEN Listing({"x"}, {}, TRUE)
                                                         ELSE EmptyListing]
    /\ fs_scan \in [AllNames -> ScanArtifactsForCommands]
    /\ fs_scan[".freight"] = AbsentArtifact
    /\ fs_clean = [n \in AllNames |-> AbsentClean]
    /\ FsConsistent
    /\ config \in ConfigsForCommands
    /\ scan_results = << >>
    /\ CommandsIdle

\* Each command is a run of main() of its own, with a new orchestrator.
NextCommands ==
    \/ \E dest_input \in DestinationInputs : InitFreightRoot("directory", dest_input)
    \/ \E source \in SourceKinds \ {"directory"} : InitFreightRoot(source, << >>)
    \/ \E writable \in BOOLEAN : Overview("display_overview", writable)
    \/ RunOrchestratedScan(TRUE, TRUE)
    \/ \E confirmed \in BOOLEAN : RunMigration(confirmed, TRUE)
    \/ SharedCommand(None)

SpecCommands == InitCommands /\ [][NextCommands]_vars

\* ------------------------------------------- two commands at the same time
\* The statistics the two commands computed: the root is scanned meanwhile, so
\* the two need not agree.
ConcurrentStats ==
    {[total_directories |-> 1, total_size_bytes |-> 10],
     [total_directories |-> 2, total_size_bytes |-> 200]}

\* A config.json of the given length that json.load cannot decode;
\* open(config.json, 'w') leaves one of length 0 until the dump.
Unreadable(length) == [state |-> "corrupt", dest_path |-> None, length |-> length]

\* The length of config.json, up to the bytes every config.json has: the
\* digits of the two statistics and dest_path (null, or the quoted string).
ConfigLength(cfg) ==
    IF cfg.state = "absent" THEN 0
    ELSE IF cfg.state = "corrupt"
    THEN IF "length" \in DOMAIN cfg THEN cfg.length ELSE 0
    ELSE Len(cfg.scan.total_directories) + Len(cfg.scan.total_size_bytes)
         + (IF cfg.dest_path = None THEN 4 ELSE Len(cfg.dest_path[1]) + 2)

DumpOver_Replaces(existing, content) == content

\* json.dump and the close of a file opened with 'w': the content goes to
\* offset 0, and what another process wrote past its end since the open stays.
DumpOver(existing, content) ==
    IF ConfigLength(existing) > ConfigLength(content)
    THEN Unreadable(ConfigLength(existing))
    ELSE content

\* One step of process p, from where it stands to its next record.  The field
\* since of a record is not the program's: it names the processes that wrote
\* their statistics since this one loaded config.json.
ProcStep(p, pc, changes) ==
    /\ procs[p].pc = pc
    /\ procs' = [q \in 1..NumProcs |->
                    IF q = p THEN changes
                    ELSE IF pc = "UpdateDump" /\ procs[q].pc \in {"UpdateOpen", "UpdateDump"}
                    THEN [procs[q] EXCEPT !.since = @ \cup {p}]
                    ELSE procs[q]]
    /\ UNCHANGED <<fsVars, overviewVars, i_result, sharedVars, config_created, scan_results,
                   migrateVars, scanVars, aggVars>>

\* ensure_global_config: `if self.global_config_path.exists(): return False`
EnsureExists(p) ==
    /\ IF config.state # "absent"
       THEN ProcStep(p, "Start", [procs[p] EXCEPT !.pc = "Overview", !.created = Some(FALSE)])
       ELSE ProcStep(p, "Start", [procs[p] EXCEPT !.pc = "EnsureOpen"])
    /\ UNCHANGED config

\* ensure_global_config: open(self.global_config_path, 'w')
EnsureOpen(p) ==
    /\ ProcStep(p, "EnsureOpen", [procs[p] EXCEPT !.pc = "EnsureDump"])
    /\ config' = Unreadable(0)

\* ensure_global_config: json.dump(config_skeleton, f), the close, return True
EnsureDump(p) ==
    /\ ProcStep(p, "EnsureDump", [procs[p] EXCEPT !.pc = "Overview", !.created = Some(TRUE)])
    /\ config' = DumpOver(config, ConfigSkeleton(MigrationRoot, None))

\* update_config_stats(stats): `if not self.global_config_path.exists(): return`
UpdateExists(p, st) ==
    /\ ProcStep(p, "Overview",
                [procs[p] EXCEPT !.pc = IF config.state = "absent" THEN "Done" ELSE "UpdateLoad",
                                 !.stats = Some(st)])
    /\ UNCHANGED config

\* update_config_stats: config = json.load(f); a JSONDecodeError is passed over
UpdateLoad(p) ==
    /\ IF ConfigLoadException(config) = "none"
       THEN ProcStep(p, "UpdateLoad",
                     [procs[p] EXCEPT !.pc = "UpdateOpen", !.config = Some(config)])
       ELSE /\ Caught(ConfigLoadException(config), UpdateCatches)
            /\ ProcStep(p, "UpdateLoad", [procs[p] EXCEPT !.pc = "Done"])
    /\ UNCHANGED config

\* update_config_stats: the second open(self.global_config_path, 'w')
UpdateOpen(p) ==
    /\ ProcStep(p, "UpdateOpen", [procs[p] EXCEPT !.pc = "UpdateDump"])
    /\ config' = Unreadable(0)

\* update_config_stats: the two assignments to config['scan'], json.dump(config, f)
\* and the close
UpdateDump(p) ==
    /\ ProcStep(p, "UpdateDump", [procs[p] EXCEPT !.pc = "Done"])
    /\ config' = DumpOver(config, UpdateConfigStats(procs[p].config[1], procs[p].stats[1],
                                                    TRUE).config)

InitConcurrent ==
    /\ PlainRoot
    /\ fs_dirs = {}
    /\ fs_scan = [n \in AllNames |-> AbsentArtifact]
    /\ fs_clean = [n \in AllNames |-> AbsentClean]
    /\ config \in {ConfigAbsent, ConfigCorrupt, ConfigWith(Some("/dst")), ConfigWith(None)}
    /\ scan_results = << >>
    /\ CommandsIdle

\* No lock is taken anywhere: every step of either process is enabled whenever
\* the process stands at it.
NextConcurrent ==
    \E p \in 1..NumProcs :
        \/ EnsureExists(p)
        \/ EnsureOpen(p)
        \/ EnsureDump(p)
        \/ \E st \in ConcurrentStats : UpdateExists(p, st)
        \/ UpdateLoad(p)
        \/ UpdateOpen(p)
        \/ UpdateDump(p)

SpecConcurrent == InitConcurrent /\ [][NextConcurrent]_vars

\* ------------------------------------------------- claims on the migration
NameIndex(name) == CHOOSE i \in 1..Len(SortOrder) : SortOrder[i] = name

\* size_bytes as the scan artifact on the disk records it
RecordedSize(name) ==
    IF fs_scan[name].kind = "object" /\ fs_scan[name].size_bytes # None
    THEN fs_scan[name].size_bytes[1] ELSE 0

NonZeroExits == {k \in 1..Len(m_invocations) : m_invocations[k].outcome = "exit_nonzero"}

RECURSIVE NamesOfNonZeroExits(_)
NamesOfNonZeroExits(k) ==
    IF k > Len(m_invocations) THEN << >>
    ELSE (IF k \in NonZeroExits THEN <<m_invocations[k].source.name>> ELSE << >>)
         \o NamesOfNonZeroExits(k + 1)

\* C1: when a confirmed and affirmed migration run in which invocations exit
\* zero or non-zero reaches its summary, every planned candidate was attempted
\* exactly once in plan order, successful + failed equals the number planned,
\* failed is the number of non-zero exits and the failed-directory list names
\* exactly the candidates whose invocation exited non-zero.
C1_PartialFailureSummary ==
    m_result = "summary" =>
        /\ Len(m_invocations) = Len(sorted_dirs)
        /\ \A k \in 1..Len(sorted_dirs) : m_invocations[k].source = sorted_dirs[k].directory
        /\ successful_migrations + failed_migrations = Len(sorted_dirs)
        /\ failed_migrations = Cardinality(NonZeroExits)
        /\ m_failed_dirs = NamesOfNonZeroExits(1)

C1_Witness ==
    /\ m_result = "summary"
    /\ Len(sorted_dirs) = 3
    /\ m_invocations[2].outcome = "exit_nonzero"
    /\ Len(m_invocations) = 3
    /\ successful_migrations = 2
    /\ failed_migrations = 1

\* C2: a migrate invocation that fails to start is recorded as a failure of
\* its candidate only, and the run goes on to the next candidate and to the
\* final summary (it never ends the run with an error).
C2_StartFailureIsolated ==
    \A k \in 1..Len(m_invocations) :
        m_invocations[k].outcome = "start_failure" =>
            /\ m_result # "error"
            /\ \E j \in 1..Len(m_failed_dirs) : m_failed_dirs[j] = m_invocations[k].source.name
            /\ failed_migrations >= 1

\* The answers that are 'y' or 'yes' up to case and surrounding whitespace.
AffirmativeAnswers == {<<"y">>, <<"Y", "E", "S">>, <<" ", "y", "e", "s", " ">>}

\* C3: the migrate tool is invoked only when the confirmed flag was given and
\* the prompt was answered 'y' or 'yes'; a dry run ends after the plan with no
\* prompt and no invocation; a confirmed run whose prompt is answered with
\* anything else ends with no invocation.
C3_InvokeOnlyAfterConfirmation ==
    /\ m_invocations # << >> =>
           m_confirmed /\ m_prompted /\ m_answer # None /\ m_answer[1] \in AffirmativeAnswers
    /\ m_phase \in {"AwaitingConfirmation", "Executing"} => m_confirmed
    /\ (m_phase # "Start" /\ ~m_confirmed) =>
           m_phase = "Done" /\ ~m_prompted /\ m_invocations = << >>
    /\ m_result = "dry_run" => ~m_confirmed /\ sorted_dirs # << >>
    /\ (m_answer # None /\ m_answer[1] \notin AffirmativeAnswers) =>
           m_phase = "Done" /\ m_result = "cancelled" /\ m_invocations = << >>

C3_Witness ==
    /\ m_invocations # << >>
    /\ m_answer = Some(<<"Y", "E", "S">>)
    /\ m_confirmed

\* C4: the migration plan holds exactly the candidates with has_scan = true,
\* each once, ascending by size_bytes, and candidates of equal size keep the
\* order of the name-sorted aggregation.
C4_PlanOrder ==
    sorted_dirs # << >> =>
        /\ \A k \in 1..Len(scan_results) :
               scan_results[k].has_scan =>
                   Cardinality({j \in 1..Len(sorted_dirs) : sorted_dirs[j] = scan_results[k]}) = 1
        /\ \A j \in 1..Len(sorted_dirs) :
               /\ sorted_dirs[j].has_scan
               /\ \E k \in 1..Len(scan_results) : scan_results[k] = sorted_dirs[j]
        /\ \A i, j \in 1..Len(sorted_dirs) :
               i < j =>
                   /\ RecordedSize(sorted_dirs[i].name) <= RecordedSize(sorted_dirs[j].name)
                   /\ RecordedSize(sorted_dirs[i].name) = RecordedSize(sorted_dirs[j].name)
                          => NameIndex(sorted_dirs[i].name) < NameIndex(sorted_dirs[j].name)

C4_Witness ==
    /\ Len(sorted_dirs) = 3
    /\ sorted_dirs[1].name = "b"
    /\ sorted_dirs[2].name = "c"
    /\ sorted_dirs[3].name = "a"
    /\ RecordedSize("b") = RecordedSize("c")
    /\ RecordedSize("c") < RecordedSize("a")

SomeHasScan == \E k \in 1..Len(scan_results) : scan_results[k].has_scan
DestinationConfigured == config.state = "ok" /\ ~Falsy(config.dest_path)
NothingExecuted == sorted_dirs = << >> /\ ~m_prompted /\ m_invocations = << >>

\* C5: run_migration ends with 'no scan data' when no candidate has has_scan,
\* and with 'destination not configured' when no destination path is
\* configured; in both cases nothing is planned, no confirmation is requested
\* and no migrate invocation occurs; the executables are checked before both.
C5_Preconditions ==
    /\ m_result = "no_scan_data" => ~SomeHasScan /\ NothingExecuted /\ m_deps_ok
    /\ m_result = "no_destination" =>
           SomeHasScan /\ ~DestinationConfigured /\ NothingExecuted /\ m_deps_ok
    /\ (m_phase # "Start" /\ (~SomeHasScan \/ ~DestinationConfigured)) =>
           m_phase = "Done" /\ NothingExecuted
    /\ (m_phase # "Start" /\ ~m_deps_ok) =>
           m_result = "missing_dependencies" /\ scan_results = << >> /\ NothingExecuted
    /\ (m_phase # "Start" /\ m_deps_ok /\ m_result # "error" /\ ~SomeHasScan) =>
           m_result = "no_scan_data"
    /\ (m_phase # "Start" /\ m_deps_ok /\ m_result # "error" /\ SomeHasScan
            /\ ~DestinationConfigured) =>
           m_result = "no_destination"

C5_Witness ==
    /\ m_result = "no_destination"
    /\ SomeHasScan
    /\ config = ConfigWith(None)
    /\ m_confirmed

\* -------------------------------------------------- claims on the scan run
LastArtifact == fs_scan[s_last[1].name]

LastCarriesMtime ==
    s_last # None /\ LastArtifact.kind = "object" /\ LastArtifact.mtime_type = "int"

ScanInvoked(name) == \E k \in 1..Len(s_invocations) : s_invocations[k].path.name = name

\* the modification time st is less than or equal to the recorded second rec
NotAfter(st, rec) == st.seconds < rec \/ (st.seconds = rec /\ st.nanos = 0)

\* C6 as claimed: for a candidate whose scan artifact carries a
\* directory_mtime, the scan is skipped if and only if the directory's
\* current modification time is less than or equal to the recorded one.
C6_SkipIffNotAfter ==
    LastCarriesMtime =>
        (s_last[1].skip <=> NotAfter(s_last[1].dir_mtime[1], LastArtifact.directory_mtime))

\* C6 as amended: for a candidate whose scan artifact carries an integer
\* directory_mtime, the scan is skipped (no invocation) if and only if the
\* directory's current modification time, truncated to whole seconds, is
\* less than or equal to the recorded one.
C6_SkipIffWholeSecondsNotAfter ==
    LastCarriesMtime =>
        /\ s_last[1].raised = "none"
        /\ s_last[1].skip <=> s_last[1].dir_mtime[1].seconds <= LastArtifact.directory_mtime
        /\ s_last[1].skip <=> ~ScanInvoked(s_last[1].name)
        /\ s_last[1].skip => s_last[1].reason = "no changes"

C6_Witness ==
    /\ LastCarriesMtime
    /\ LastArtifact.directory_mtime = 1
    /\ s_last[1].dir_mtime = Some([seconds |-> 1, nanos |-> 500000000])
    /\ s_last[1].skip
    /\ skipped_scans >= 1
    /\ ~ScanInvoked(s_last[1].name)

\* no prior scan artifact, an artifact without directory_mtime, or an
\* artifact that cannot be parsed into a record
WithoutUsableRecord(art) ==
    \/ art.kind = "absent"
    \/ art.kind = "object" /\ art.mtime_type = "missing"
    \/ art.kind \in BrokenKinds \cup {"nonobject"}

\* C7: when a candidate has no scan artifact, or its artifact lacks
\* directory_mtime, or its artifact cannot be parsed, whatever the corruption,
\* the decision is 'do not skip' and the candidate is scanned; the decision
\* never aborts the scan run.
C7_NoSkipWithoutUsableRecord ==
    /\ (s_last # None /\ WithoutUsableRecord(LastArtifact)) =>
           /\ s_last[1].raised = "none"
           /\ ~s_last[1].skip
           /\ ScanInvoked(s_last[1].name)
    /\ s_error # None => s_error[1].at # "skip decision"

FailedScanInvocations ==
    {k \in 1..Len(s_invocations) : s_invocations[k].outcome # "exit_zero"}

RECURSIVE FailedScansFrom(_)
FailedScansFrom(k) ==
    IF k > Len(s_invocations) THEN << >>
    ELSE (IF k \in FailedScanInvocations THEN <<s_invocations[k]>> ELSE << >>)
         \o FailedScansFrom(k + 1)

\* C8: a scan invocation that exits non-zero or raises an invocation error
\* increments the failure counter and appends (name, diagnostic text) to the
\* failed list; it never ends the run, and the loop goes on to the candidates
\* after it, up to the summary.
C8_ScanFailureIsolated ==
    LET failed == FailedScansFrom(1) IN
    /\ failed_scans = Cardinality(FailedScanInvocations)
    /\ Len(s_failed_dirs) = Len(failed)
    /\ \A j \in 1..Len(failed) :
           /\ s_failed_dirs[j][1] = failed[j].path.name
           /\ (failed[j].outcome = "exit_nonzero" /\ failed[j].stderr = "") =>
                  s_failed_dirs[j][2] = "Unknown error"
           /\ (failed[j].outcome = "exit_nonzero" /\ failed[j].stderr = " scan failed ") =>
                  s_failed_dirs[j][2] = "scan failed"
           /\ failed[j].outcome = "start_failure" => s_failed_dirs[j][2] = StartFailureText
    /\ s_error # None => s_error[1].at # "invocation"
    /\ \A k \in 1..Len(s_invocations) :
           \E j \in 1..Len(subdirs) :
               /\ subdirs[j] = s_invocations[k].path.name
               /\ j < s_i
    /\ s_phase = "Scanning" => s_i <= Len(subdirs)
    /\ s_result = "summary" =>
           /\ s_i = Len(subdirs) + 1
           /\ successful_scans + skipped_scans + failed_scans = Len(subdirs)

C8_Witness ==
    /\ s_result = "summary"
    /\ Len(subdirs) = 3
    /\ Len(s_invocations) = 3
    /\ s_invocations[1].outcome = "start_failure"
    /\ s_invocations[2].outcome = "exit_nonzero"
    /\ s_invocations[3].outcome = "exit_zero"
    /\ s_failed_dirs = <<<<"a", StartFailureText>>, <<"b", "Unknown error">>>>
    /\ failed_scans = 2
    /\ successful_scans = 1

\* ------------------------------------------------ claims on the aggregation
RECURSIVE NamesOf(_)
NamesOf(results) ==
    IF results = << >> THEN << >> ELSE <<Head(results).name>> \o NamesOf(Tail(results))

\* json.load returned a value for the artifact
Parsed(art) == art.kind \in {"object", "nonobject"}
Unparseable(art) == art.kind \in BrokenKinds

\* C9: a present-but-unparseable scan or clean artifact of one candidate never
\* aborts aggregation: the candidate is added degraded (has_scan = false, no
\* clean data), and the candidate list has one entry per subdirectory.
C9_AggregationNeverAborts ==
    a_phase # "Start" =>
        /\ a_phase = "Done"
        /\ NamesOf(scan_results) = SortedNames(fs_dirs, 1)
        /\ \A k \in 1..Len(scan_results) :
               /\ Unparseable(fs_scan[scan_results[k].name]) => ~scan_results[k].has_scan
               /\ Unparseable(fs_clean[scan_results[k].name]) =>
                      scan_results[k].clean_data = EmptyCleanDict

\* C10: for every candidate produced by aggregation, has_scan holds if and
\* only if the scan artifact is present and was parsed; scan data and clean
\* data each depend on their own artifact only.
C10_HasScanIffParsed ==
    \A k \in 1..Len(scan_results) :
        LET r == scan_results[k] IN
        /\ r.has_scan <=> Parsed(fs_scan[r.name])
        /\ r.scan_data = IF Parsed(fs_scan[r.name]) THEN fs_scan[r.name] ELSE EmptyDict
        /\ r.clean_data = IF Parsed(fs_clean[r.name]) THEN fs_clean[r.name] ELSE EmptyCleanDict

C10_Witness ==
    /\ a_phase = "Done"
    /\ Len(scan_results) = 3
    /\ fs_scan[scan_results[1].name].kind = "malformed"
    /\ ~scan_results[1].has_scan
    /\ scan_results[1].clean_data = CleanArtifact("object", Some(5))
    /\ scan_results[2].has_scan
    /\ fs_clean[scan_results[2].name].kind = "malformed"
    /\ scan_results[2].clean_data = EmptyCleanDict
    /\ fs_scan[scan_results[3].name].kind = "absent"
    /\ ~scan_results[3].has_scan

\* --------------------------------------------- claims on the statistics
\* the scan statistics as config.json holds them, read back by json.load
StoredStatistics(cfg) ==
    [total_directories |-> JsonLoadInt(cfg.scan.total_directories),
     total_size_bytes |-> JsonLoadInt(cfg.scan.total_size_bytes)]

PersistedStatistics(st) ==
    [total_directories |-> st.total_directories, total_size_bytes |-> st.total_size_bytes]

\* C12: for every candidate list, get_statistics returns scanned_directories
\* + unscanned_directories = total_directories, where total_directories is
\* the number of candidates and scanned_directories the number of candidates
\* with has_scan = true.
C12_StatisticsPartition ==
    stats # None =>
        LET st == stats[1] IN
        /\ st.scanned_directories + st.unscanned_directories = st.total_directories
        /\ st.total_directories = Len(scan_results)
        /\ st.total_directories = Cardinality(fs_dirs \ {".freight"})
        /\ st.scanned_directories =
               Cardinality({k \in 1..Len(scan_results) : scan_results[k].has_scan})
        /\ st.scanned_directories = Cardinality({n \in fs_dirs : Parsed(fs_scan[n])})
        /\ st.unscanned_directories >= 0

C12_Witness ==
    /\ stats # None
    /\ stats[1].total_directories = 3
    /\ stats[1].scanned_directories = 2
    /\ stats[1].unscanned_directories = 1
    /\ fs_scan["a"] = EmptyDict
    /\ fs_scan["b"].kind = "malformed"

\* C13: completion_rate is 0 when total_directories is 0 (the computation
\* does not fail on an empty candidate list) and otherwise is
\* scanned_directories / total_directories * 100; it lies between 0 and 100.
C13_CompletionRate ==
    /\ stats # None =>
           LET st == stats[1]
               rate == st.completion_rate
           IN  /\ rate.den > 0
               /\ st.total_directories = 0 => rate.num = 0
               /\ st.total_directories > 0 =>
                      rate.num * st.total_directories = st.scanned_directories * 100 * rate.den
               /\ 0 <= rate.num
               /\ rate.num <= 100 * rate.den
    /\ (o_result = "error" /\ fs_dirs = {}) => o_error = Some("PermissionError")

C13_Witness ==
    /\ stats # None
    /\ stats[1].total_directories = 3
    /\ stats[1].scanned_directories = 1
    /\ stats[1].completion_rate = [num |-> 100, den |-> 3]

\* C14 as claimed: after any statistics computation with a GlobalConfig
\* present, the stored scan statistics equal the values just computed.
C14_PersistedWheneverPresent ==
    (stats # None /\ config.state # "absent") =>
        /\ config.state = "ok"
        /\ StoredStatistics(config) = PersistedStatistics(stats[1])

\* C14 as amended: every overview that computes statistics (display_overview
\* and get_overview_data alike) with a GlobalConfig present that can be
\* parsed and opened for writing leaves the stored total_directories and
\* total_size_bytes equal to the values just computed.
C14_PersistedWhenRewritable ==
    /\ o_result \in OverviewCallers <=> stats # None
    /\ (stats # None /\ config.state = "ok" /\ o_writable) =>
           StoredStatistics(config) = PersistedStatistics(stats[1])

C14_Witness ==
    /\ o_result = "get_overview_data"
    /\ o_writable
    /\ stats # None
    /\ stats[1].total_directories = 2
    /\ stats[1].total_size_bytes = 20
    /\ config.state = "ok"
    /\ StoredStatistics(config) = [total_directories |-> 2, total_size_bytes |-> 20]

\* C15: writing statistics into an existing readable GlobalConfig and
\* re-reading it gives the total_directories and total_size_bytes that were
\* written, and the write changes no other field of the record.
C15_StatisticsRoundTrip ==
    [][(config.state = "ok" /\ stats' # None /\ o_writable') =>
           /\ config'.state = "ok"
           /\ StoredStatistics(config') = PersistedStatistics(stats'[1])
           /\ [config' EXCEPT !.scan.total_directories = config.scan.total_directories,
                              !.scan.total_size_bytes = config.scan.total_size_bytes]
                  = config]_vars

C15_Witness ==
    /\ stats # None
    /\ o_writable
    /\ stats[1].total_size_bytes = 40
    /\ config = [ConfigWith(Some("/dst")) EXCEPT
                     !.scan.total_directories = <<3>>,
                     !.scan.total_size_bytes = <<4, 0>>]

\* --------------------------------------- claims on the shared directories
\* the names config.json lists in clean.shared_directory_ignore
ConfiguredIgnores ==
    IF config.state = "ok" /\ config.clean # None
       /\ config.clean[1].shared_directory_ignore # None
    THEN {config.clean[1].shared_directory_ignore[1][i] :
              i \in 1..Len(config.clean[1].shared_directory_ignore[1])}
    ELSE {}

\* the accessible candidates that have a child directory of the name
Holders(name) ==
    {c \in fs_dirs \ {".freight"} : fs_children[c].accessible /\ name \in fs_children[c].dirs}

SharedAnalysed == sh_result # "none"

RetainedNames == {sorted_shared[i][1] : i \in 1..Len(sorted_shared)}

\* C17: the count of a name is the number of accessible candidates that have
\* an immediate child directory of that name; a name in the ignore set, and a
\* name no accessible candidate has as a child directory, has no count.
\* Children {x,y}, {x,z}, {x} with threshold 2 retain only x, with count 3.
C17_FrequencyCounts ==
    SharedAnalysed =>
        /\ DOMAIN directory_counts \subseteq ChildNames
        /\ \A name \in ChildNames :
               IF name \in {".freight", ".ssh"} \cup ConfiguredIgnores \/ Holders(name) = {}
               THEN name \notin DOMAIN directory_counts
               ELSE /\ name \in DOMAIN directory_counts
                    /\ directory_counts[name] = Cardinality(Holders(name))

C17_Witness ==
    /\ SharedAnalysed
    /\ fs_children["a"] = Listing({"x", "y"}, {}, TRUE)
    /\ fs_children["b"] = Listing({"x", "z"}, {}, TRUE)
    /\ fs_children["c"] = Listing({"x"}, {}, TRUE)
    /\ ConfiguredIgnores = {}
    /\ threshold = Some(2)
    /\ DOMAIN directory_counts = {"x", "y", "z"}
    /\ directory_counts["x"] = 3
    /\ directory_counts["y"] = 1
    /\ directory_counts["z"] = 1
    /\ sorted_shared = << <<"x", 3>> >>

\* C18: the ignore set of the analysis is the union of {.freight, .ssh} and
\* the configured shared_directory_ignore list, each name once; .freight
\* and .ssh are ignored whatever config.json holds.
C18_IgnoreSet ==
    SharedAnalysed =>
        /\ {ignore_list[i] : i \in 1..Len(ignore_list)}
               = {".freight", ".ssh"} \cup ConfiguredIgnores
        /\ \A i, j \in 1..Len(ignore_list) : i # j => ignore_list[i] # ignore_list[j]
        /\ \A name \in DOMAIN directory_counts :
               name \notin {".freight", ".ssh"} \cup ConfiguredIgnores

C18_Witness ==
    /\ SharedAnalysed
    /\ ConfiguredIgnores = {".ssh", "z"}
    /\ Len(ignore_list) = 3
    /\ \E c \in fs_dirs : fs_children[c].accessible /\ ".ssh" \in fs_children[c].dirs
    /\ \E c \in fs_dirs : fs_children[c].accessible /\ "z" \in fs_children[c].dirs
    /\ "x" \in DOMAIN directory_counts

\* C19: the report of display_shared_directories retains exactly the names
\* whose count is at least the threshold it is given, each once with its
\* count, sorted by count descending and by name ascending among equal
\* counts: counts {x:2, y:3, z:2} give y, x, z.
C19_ReportOrder ==
    sh_result \in {"report", "no_shared_directories"} =>
        /\ threshold # None
        /\ RetainedNames = {n \in DOMAIN directory_counts : directory_counts[n] >= threshold[1]}
        /\ Len(sorted_shared) = Cardinality(RetainedNames)
        /\ sh_result = "report" <=> sorted_shared # << >>
        /\ \A i \in 1..Len(sorted_shared) :
               sorted_shared[i][2] = directory_counts[sorted_shared[i][1]]
        /\ \A i, j \in 1..Len(sorted_shared) :
               i < j =>
                   \/ sorted_shared[i][2] > sorted_shared[j][2]
                   \/ /\ sorted_shared[i][2] = sorted_shared[j][2]
                      /\ ChildIndex(sorted_shared[i][1]) < ChildIndex(sorted_shared[j][1])

C19_Witness ==
    /\ sh_result = "report"
    /\ threshold = Some(2)
    /\ DOMAIN directory_counts = {"x", "y", "z"}
    /\ directory_counts["x"] = 2
    /\ directory_counts["y"] = 3
    /\ directory_counts["z"] = 2
    /\ sorted_shared = << <<"y", 3>>, <<"x", 2>>, <<"z", 2>> >>

\* C20: when the shared command is given a threshold override N, the
\* analysis is reported and the retained names are exactly the names with
\* count >= N, whatever threshold config.json holds.
C20_OverrideDecides ==
    (SharedAnalysed /\ sh_override # None) =>
        /\ sh_result # "error"
        /\ RetainedNames =
               {n \in DOMAIN directory_counts : directory_counts[n] >= sh_override[1]}

\* ------------------------------------------------ claims on the candidates
RECURSIVE SeqToSet(_)
SeqToSet(s) == IF s = << >> THEN {} ELSE {Head(s)} \cup SeqToSet(Tail(s))

\* The candidate set of an operation that has run, one per operation:
\* aggregation (overview and migration), scanning, frequency analysis, and
\* the migration plan.
EachOperationOver(candidates) ==
    /\ (o_result = "display_overview" \/ m_result \in {"no_scan_data", "dry_run"}) =>
           NamesOf(scan_results) = SortedNames(candidates, 1)
    /\ s_phase = "Scanning" => subdirs = SortedNames(candidates, 1)
    /\ s_result = "no_subdirectories" => candidates = {}
    /\ sh_result # "none" => sh_visited = candidates
    /\ m_result = "dry_run" =>
           SeqToSet(NamesOf(sorted_dirs)) = {c \in candidates : Parsed(fs_scan[c])}

\* C11 as claimed: the candidates of aggregation, scanning, frequency
\* analysis and migration are exactly the immediate subdirectories of the
\* migration root that are not hidden and are not .freight.
C11_CandidatesNonHidden == EachOperationOver(fs_dirs \ HiddenNames)

\* C11 as amended: the candidates of aggregation, scanning, frequency
\* analysis and migration are exactly the immediate subdirectories of the
\* migration root other than .freight; a hidden subdirectory other than
\* .freight is a candidate, a regular file is not.
C11_CandidatesNotInfrastructure == EachOperationOver(fs_dirs \ {".freight"})

C11_Witness ==
    /\ fs_dirs = {".cache", ".freight", "a"}
    /\ fs_files = {"notes.txt"}
    /\ o_result = "display_overview"
    /\ m_result = "dry_run"
    /\ NamesOf(scan_results) = <<".cache", "a">>
    /\ NamesOf(sorted_dirs) = <<".cache", "a">>
    /\ s_phase = "Scanning"
    /\ subdirs = <<".cache", "a">>
    /\ sh_visited = {".cache", "a"}

\* ---------------------------------------------- claims on the GlobalConfig
\* C16: once a config.json exists, no command re-creates or replaces it:
\* ensure_global_config returns false and leaves it alone, init refuses, and
\* every command leaves every field other than the two stored statistics as
\* it was.
C16_ConfigCreatedOnce ==
    [][config.state # "absent" =>
           /\ config'.state = config.state
           /\ config.state = "corrupt" => config' = config
           /\ config.state = "ok" =>
                  [config' EXCEPT !.scan.total_directories = config.scan.total_directories,
                                  !.scan.total_size_bytes = config.scan.total_size_bytes]
                      = config
           /\ \/ config_created' = FALSE
              \/ /\ config_created' = config_created
                 /\ i_result' = "already_initialized"]_vars

C16_Witness ==
    /\ i_result = "already_initialized"
    /\ config.state = "ok"
    /\ config.dest_path = Some("/d")
    /\ config.migration_root = MigrationRoot
    /\ ~config_created
    /\ StoredStatistics(config) = [total_directories |-> 2, total_size_bytes |-> 20]
    /\ m_result = "dry_run"
    /\ s_phase = "Scanning"
    /\ sh_result # "none"

\* ------------------------------------- claims on the threshold resolution
\* config.json cannot be parsed, or has no clean sub-record
CleanUnreadable == config.state = "corrupt" \/ (config.state = "ok" /\ config.clean = None)

\* config.json has a clean sub-record without a threshold
ThresholdMissing ==
    config.state = "ok" /\ config.clean # None
        /\ config.clean[1].shared_directory_threshold = None

\* C21: when config.json is missing or unreadable, or has no clean sub-record
\* or no threshold in it, the shared command completes: it ignores the
\* implicit names only and retains the names with count >= 2.
C21_FallbackToDefaults ==
    (SharedAnalysed /\ (CleanUnreadable \/ ThresholdMissing)) =>
        /\ sh_result # "error"
        /\ RetainedNames = {n \in DOMAIN directory_counts : directory_counts[n] >= 2}
        /\ CleanUnreadable => SetOf(ignore_list) = {".freight", ".ssh"}

\* ----------------------------------- claims on the inaccessible candidates
Inaccessible == {c \in fs_dirs \ {".freight"} : ~fs_children[c].accessible}

\* the names counted, were c the only candidate
CountedIn(c) == {n \in fs_children[c].dirs : n \notin SetOf(ignore_list)}

\* C22: a candidate whose children cannot be listed (permission or OS error)
\* adds nothing to any count, gets one warning, and does not stop the
\* analysis: the other candidates are counted and the command reports.
C22_InaccessibleSkipped ==
    SharedAnalysed =>
        /\ sh_error # Some("PermissionError")
        /\ SeqToSet(sh_warned) = Inaccessible
        /\ Len(sh_warned) = Cardinality(Inaccessible)
        /\ \A n \in ChildNames :
               LET counted == {c \in sh_visited \ Inaccessible : n \in CountedIn(c)} IN
               IF counted = {} THEN n \notin DOMAIN directory_counts
               ELSE n \in DOMAIN directory_counts /\ directory_counts[n] = Cardinality(counted)

C22_Witness ==
    /\ sh_result = "report"
    /\ fs_dirs = {"a", "b", "c"}
    /\ fs_children["a"] = Listing({"x"}, {}, TRUE)
    /\ fs_children["b"] = Listing({"x"}, {}, FALSE)
    /\ fs_children["c"] = Listing({"x", "y"}, {}, TRUE)
    /\ sh_warned = <<"b">>
    /\ DOMAIN directory_counts = {"x", "y"}
    /\ directory_counts["x"] = 2
    /\ sorted_shared = << <<"x", 2>> >>

\* ----------------------------------------- claims on the aggregation passes
\* C23: scan_directories on a root path that does not exist raises
\* FileNotFoundError, on a root path that is not a directory
\* NotADirectoryError; in both cases the call adds no candidate to the list,
\* whether it is made directly or by run_migration.
C23_RootFailureAborts ==
    [][(fs_root # "directory" /\ (a_passes' # a_passes \/ m_phase' # m_phase)) =>
           /\ scan_results' = scan_results
           /\ a_passes' # a_passes =>
                  /\ a_phase' = "Raised"
                  /\ fs_root = "missing" => a_error' = Some("FileNotFoundError")
                  /\ fs_root = "file" => a_error' = Some("NotADirectoryError")
           /\ m_phase' # m_phase => m_result' = "error" /\ sorted_dirs' = << >>]_vars

C23_Witness ==
    /\ fs_root = "file"
    /\ a_passes = 2
    /\ a_phase = "Raised"
    /\ a_error = Some("NotADirectoryError")
    /\ NamesOf(scan_results) = <<"a", "b", "c">>
    /\ m_result = "error"

\* C26: the candidate list is built anew by every pass: after any number of
\* calls of scan_directories on one orchestrator, the call that run_migration
\* makes included, the list holds one candidate per subdirectory of the root.
C26_FreshEveryPass ==
    (a_passes > 0 \/ m_phase # "Start") =>
        \/ scan_results = << >>
        \/ NamesOf(scan_results) = SortedNames(Subdirs(fs_dirs, fs_files), 1)

\* ------------------------------------------ claims on the migrate operands
\* C24: the invocation made for a planned candidate has the operands (source
\* path, dest_path / candidate.name, migration root) in that order; the
\* candidates are invoked in plan order, none twice, every one of them when
\* the run reaches its summary; no two planned candidates get the same
\* destination.
C24_Operands ==
    /\ Len(m_invocations) <= Len(sorted_dirs)
    /\ \A k \in 1..Len(m_invocations) :
           /\ m_dest_path = config.dest_path
           /\ m_invocations[k].argv =
                  <<"freight-migrate.sh", PathOf(MigrationRoot, sorted_dirs[k].name),
                    PathOf(config.dest_path[1], sorted_dirs[k].name), MigrationRoot>>
    /\ \A j, k \in 1..Len(m_invocations) :
           j # k => /\ m_invocations[j].argv[2] # m_invocations[k].argv[2]
                    /\ m_invocations[j].argv[3] # m_invocations[k].argv[3]
    /\ \A j, k \in 1..Len(sorted_dirs) : j # k => sorted_dirs[j].name # sorted_dirs[k].name
    /\ m_result = "summary" => Len(m_invocations) = Len(sorted_dirs)

C24_Witness ==
    /\ m_result = "summary"
    /\ Len(sorted_dirs) = 3
    /\ Len(m_invocations) = 3
    /\ m_invocations[1].argv =
           <<"freight-migrate.sh", PathOf("/root", "b"), PathOf("/dst", "b"), "/root">>
    /\ m_invocations[2].argv[3] = PathOf("/dst", "a")
    /\ m_invocations[3].argv[3] = PathOf("/dst", "c")

\* ------------------------------------------------- claims on the re-run
\* the candidates the invocations name, and those among them that did not exit zero
Invoked(invocations) == {invocations[k].source.name : k \in 1..Len(invocations)}
NotMigrated(invocations) ==
    {invocations[k].source.name :
         k \in {j \in 1..Len(invocations) : invocations[j].outcome # "exit_zero"}}

Increasing(names) ==
    \A j, k \in 1..Len(names) : j < k => NameIndex(names[j]) < NameIndex(names[k])

InvokedNames == [k \in 1..Len(s_invocations) |-> s_invocations[k].path.name]

\* the names aggregation goes through, in its order
AggregationOrder == SortedNames(Subdirs(fs_dirs, fs_files), 1)

\* C27: the scan run visits the candidates in the name-sorted order in which
\* aggregation yields them, one invocation at a time: the invocations are in
\* strictly increasing name order, and each has ended before the run turns
\* to the next candidate.
C27_NameSortedVisits ==
    /\ Increasing(AggregationOrder)
    /\ NamesOf(ScanDirectoriesResult(<< >>, fs_root, Subdirs(fs_dirs, fs_files),
                                     [n \in AllNames |-> AbsentArtifact],
                                     fs_clean).results) = AggregationOrder
    /\ subdirs # << >> => subdirs = AggregationOrder
    /\ s_invocations = << >> \/ s_i >= 1
    /\ s_i >= 1 =>
           /\ Increasing(InvokedNames)
           /\ Len(s_invocations) < s_i
           /\ \A k \in 1..Len(s_invocations) :
                  /\ s_invocations[k].outcome \in Outcomes
                  /\ \E j \in 1..(s_i - 1) : subdirs[j] = InvokedNames[k]
           /\ s_last # None =>
                  s_last[1].name = subdirs[IF s_result = "error" THEN s_i ELSE s_i - 1]

C27_Witness ==
    /\ s_result = "summary"
    /\ subdirs = <<"a", "b", "c">>
    /\ InvokedNames = <<"a", "c">>
    /\ skipped_scans = 1
    /\ s_last # None
    /\ s_last[1].name = "c"

\* ------------------------------------------- claims on the scan accounting
\* the invocations made for the candidate at position j of subdirs
InvocationsOf(j) == {k \in 1..Len(s_invocations) : s_invocations[k].path.name = subdirs[j]}

Visited(outcomes) ==
    {j \in 1..Len(subdirs) :
         \E k \in InvocationsOf(j) : s_invocations[k].outcome \in outcomes}

\* C29: at the summary of a scan run over a root with candidates, successful
\* + skipped + failed is the number of candidates; every candidate got at
\* most one invocation, the skipped ones none, the successful ones one that
\* exited zero, the failed ones one that did not; the failed list has one
\* entry per failed candidate, in visiting order.  A root without candidates
\* ends the run with 'no subdirectories' and without an invocation.
C29_ScanAccounting ==
    /\ s_result = "summary" =>
           /\ Len(subdirs) = Cardinality(Subdirs(fs_dirs, fs_files))
           /\ Len(subdirs) > 0
           /\ successful_scans + skipped_scans + failed_scans = Len(subdirs)
           /\ \A j \in 1..Len(subdirs) : Cardinality(InvocationsOf(j)) <= 1
           /\ skipped_scans = Cardinality({j \in 1..Len(subdirs) : InvocationsOf(j) = {}})
           /\ successful_scans = Cardinality(Visited({"exit_zero"}))
           /\ failed_scans = Cardinality(Visited(Outcomes \ {"exit_zero"}))
           /\ Len(s_failed_dirs) = failed_scans
           /\ LET failed == FailedScansFrom(1) IN
              \A j \in 1..Len(s_failed_dirs) : s_failed_dirs[j][1] = failed[j].path.name
    /\ s_result = "no_subdirectories" =>
           /\ Subdirs(fs_dirs, fs_files) = {}
           /\ s_invocations = << >>
           /\ successful_scans + skipped_scans + failed_scans = 0
    /\ (s_phase = "Done" /\ Subdirs(fs_dirs, fs_files) = {}) =>
           s_result \in {"no_subdirectories", "missing_dependencies"} /\ s_invocations = << >>

C29_Witness ==
    /\ s_result = "summary"
    /\ subdirs = <<"a", "b", "c">>
    /\ successful_scans = 1
    /\ skipped_scans = 1
    /\ failed_scans = 1
    /\ InvocationsOf(1) = {}
    /\ Len(s_invocations) = 2
    /\ s_invocations[1].outcome = "exit_zero"
    /\ s_failed_dirs = << <<"c", "scan failed">> >>

\* ------------------------------------ claims on the auto-created config
\* a config.json that names no destination
Unset(cfg) == cfg.state = "ok" /\ cfg.dest_path = None

WrittenBack(p) == UpdateConfigStats(procs[p].config[1], procs[p].stats[1], TRUE).config

\* C28: config.json is read, modified and written without a lock.  Whatever
\* the other process does in between, ensure_global_config creates the file
\* exactly when its own exists() found none, and update_config_stats writes
\* back the copy it loaded, with its statistics: a write the other process
\* made since the load is not in the file afterwards (where the other wrote
\* more bytes than this one, their tail stays and the file is unreadable).
C28_NoLockOnConfig ==
    [][\A p \in 1..NumProcs :
         /\ (procs[p].pc = "Start" /\ procs'[p].pc # "Start") =>
                (procs'[p].pc = "EnsureOpen") = (config.state = "absent")
         /\ (procs[p].pc = "EnsureDump" /\ procs'[p].pc # "EnsureDump") =>
                /\ procs'[p].created = Some(TRUE)
                /\ config' = IF ConfigLength(config) > ConfigLength(ConfigWith(None))
                             THEN Unreadable(ConfigLength(config))
                             ELSE ConfigWith(None)
         /\ (procs[p].pc = "UpdateDump" /\ procs'[p].pc # "UpdateDump") =>
                /\ config' = IF ConfigLength(config) > ConfigLength(WrittenBack(p))
                             THEN Unreadable(ConfigLength(config))
                             ELSE WrittenBack(p)
                /\ \A q \in procs[p].since :
                       (config'.state = "ok" /\ procs[q].stats # procs[p].stats) =>
                           /\ config'.scan # WrittenBack(q).scan
                           /\ config'.scan.total_directories =
                                  JsonDumpInt(procs[p].stats[1].total_directories)]_vars

\* Processes 1 and 2 both found no config.json and both created it; then
\* process 2 wrote its statistics between the load and the write of process
\* 1, and the file holds those of process 1 only.
C28_Witness ==
    /\ \A p \in {1, 2} : procs[p].pc = "Done" /\ procs[p].created = Some(TRUE)
    /\ procs[1].since = {2}
    /\ procs[2].since = {}
    /\ procs[1].stats # procs[2].stats
    /\ config = WrittenBack(1)
    /\ config.scan # WrittenBack(2).scan

====
